---- MODULE Spec2Model ----
(***************************************************************************)
(* Atom Voice backend: the utterance chunk store (conversation_store.py),  *)
(* the streaming sentence segmenter (llm_service.py) and the streaming     *)
(* LLM -> TTS -> SSE pipeline (main.py).                                   *)
(*                                                                         *)
(* Texts are sequences of one-character strings, so that joining,          *)
(* stripping, splitting and delimiter search are computed, not assumed.    *)
(***************************************************************************)
EXTENDS Integers, Sequences, FiniteSets, TLC

(***************************************************************************)
(* Bounds of the model.                                                    *)
(***************************************************************************)
MaxIndex == 2

\* add_chunk_text calls explored in one run: enough for every index once.
MaxCalls == MaxIndex + 1

Sessions == {"s1", "s2"}

Indices == 0 .. MaxIndex

\* Recognizer results (text, latency) handed to add_chunk_text.
ChunkResults ==
    { [text |-> <<"a", " ">>, stt_ms |-> 10],
      [text |-> <<" ", "b">>, stt_ms |-> 20] }

VARIABLES
    active_sessions,  \* ConversationStore._active_sessions: session_id -> dict
    calls,            \* per session: the add_chunk_text calls since it was last consumed
    ret,              \* per session: what the last finalize_session returned
    finCount,         \* per session: finalize_session calls since the last add (capped)
    nAdds             \* add_chunk_text calls made so far

sessVars == <<active_sessions, calls, ret, finCount, nAdds>>

VARIABLES
    llm_text,    \* the whole character stream the provider will deliver
    pos,         \* characters of llm_text delivered so far (as deltas)
    seg,         \* _stream_llm_sentences' locals, and the sentence events yielded
    segPc,       \* "idle", "streaming", "done" (done event yielded), "failed" (the
                 \* provider raised) or "type_error" (the completion log line raised)
    done_event   \* the done event yielded by _stream_llm_sentences

segVars == <<llm_text, pos, seg, segPc, done_event>>

VARIABLES
    llmPc,               \* llm_producer: "idle", "running" or "finished"
    llm_yielded,         \* sentence items the generation stream has yielded
    sentence_q,          \* sentence_q (thread-safe queue), oldest first
    llm_done_info,       \* llm_done_info
    ttsPc,               \* tts_worker: "idle", "get", "synth" or "exit"
    synth,               \* per sentence taken by the worker: what synthesis did
    audio_q,             \* audio_q (asyncio queue), oldest first
    ssePc,               \* sse_generator: "start", "loop", "registering",
                         \* "waiting", "woken", "join" or "finished"
    global_chunk_index,  \* global_chunk_index
    events,              \* the events yielded to the caller, in order
    history              \* the character's messages in the conversation store

pipeVars == <<llmPc, llm_yielded, sentence_q, llm_done_info, ttsPc, synth,
              audio_q, ssePc, global_chunk_index, events, history>>

VARIABLES
    conversations,  \* ConversationStore._conversations: records in insertion
                    \* order, each with its list of message objects
    heap,           \* the message objects (dicts) made by the store
    held,           \* what the last read returned, as its caller now holds it
    lastOp,         \* the last clear_conversation call and what it returned, if
                    \* the last store operation was one
    nMutations      \* changes the callers have made to returned values

histVars == <<conversations, heap, held, lastOp, nMutations>>

VARIABLES
    wait   \* _wait_for_missing_chunks for one session: where it is ("before":
           \* not called yet), the time since its start_time, whether a
           \* fragment arrived during it, and how it ended

waitVars == <<wait>>

VARIABLES
    talk              \* the /talk or /talk_stream request being handled

talkVars == <<talk>>

VARIABLES
    disconnect        \* whether the caller has left, and what the worker had taken then

discVars == <<disconnect>>

VARIABLES
    lock,             \* ConversationStore._lock: the thread holding it, or None
    threads,          \* per thread: the store call it is in and where
    oplog             \* the store calls that returned, in the order they returned

lockVars == <<lock, threads, oplog>>

VARIABLES
    upload            \* the latest /upload_audio_chunk request and its response

uploadVars == <<upload>>

VARIABLES
    reqs              \* the /talk and /talk_stream requests in flight at once

reqVars == <<reqs>>

vars == <<sessVars, segVars, pipeVars, histVars, waitVars, talkVars, discVars,
          lockVars, uploadVars, reqVars>>

(***************************************************************************)
(* Text helpers (Python str semantics).                                    *)
(***************************************************************************)
Whitespace == {" ", "\n"}

IsSpace(c) == c \in Whitespace

RECURSIVE LStrip(_)
LStrip(s) ==
    IF s = <<>> THEN <<>>
    ELSE IF IsSpace(Head(s)) THEN LStrip(Tail(s)) ELSE s

RECURSIVE RStrip(_)
RStrip(s) ==
    IF s = <<>> THEN <<>>
    ELSE IF IsSpace(s[Len(s)]) THEN RStrip(SubSeq(s, 1, Len(s) - 1)) ELSE s

\* A mutant of Strip: nothing is stripped.
StripNothing(s) == s

\* str.strip()
Strip(s) == RStrip(LStrip(s))

\* " ".join(texts)
RECURSIVE JoinSpace(_)
JoinSpace(texts) ==
    IF texts = <<>> THEN <<>>
    ELSE IF Len(texts) = 1 THEN texts[1]
    ELSE texts[1] \o <<" ">> \o JoinSpace(Tail(texts))

\* Python's None and a present value.
None == <<>>

Some(x) == <<x>>

(***************************************************************************)
(* A Python dict as its insertion-ordered sequence of entries              *)
(* [index, text, stt_ms]; assigning an existing key keeps its position.    *)
(***************************************************************************)
DictKeys(d) == [i \in 1 .. Len(d) |-> d[i].index]

DictKeySet(d) == {d[i].index : i \in 1 .. Len(d)}

DictGet(d, k) == d[CHOOSE i \in 1 .. Len(d) : d[i].index = k]

\* A mutant of DictSet: an existing key gets a second entry.
DictSetAppends(d, k, text, stt_ms) ==
    Append(d, [index |-> k, text |-> text, stt_ms |-> stt_ms])

DictSet(d, k, text, stt_ms) ==
    LET e == [index |-> k, text |-> text, stt_ms |-> stt_ms]
    IN  IF k \in DictKeySet(d)
        THEN [i \in 1 .. Len(d) |-> IF d[i].index = k THEN e ELSE d[i]]
        ELSE Append(d, e)

\* sorted(chunks.keys())
RECURSIVE SortedSet(_)
SortedSet(S) ==
    IF S = {} THEN <<>>
    ELSE LET m == CHOOSE x \in S : \A y \in S : x <= y
         IN  <<m>> \o SortedSet(S \ {m})

\* A mutant of SortedIndices: the keys in insertion order, unsorted.
SortedIndicesUnsorted(chunks) == DictKeys(chunks)

SortedIndices(chunks) == SortedSet(DictKeySet(chunks))

\* A mutant of SessionsAfterPop: the session is read but not removed.
SessionsAfterPopKeeps(sessions, session_id) == sessions

\* self._active_sessions.pop(session_id, {}): the mapping left behind
SessionsAfterPop(sessions, session_id) ==
    [s \in DOMAIN sessions \ {session_id} |-> sessions[s]]

\* self._active_sessions.pop(session_id, {}): the value popped
PoppedChunks(sessions, session_id) ==
    IF session_id \in DOMAIN sessions THEN sessions[session_id] ELSE <<>>

\* finalize_session's return value for the popped chunks
FinalizeResult(chunks) ==
    IF chunks = <<>>
    THEN [text |-> <<>>, stt |-> None]
    ELSE LET sorted_indices == SortedIndices(chunks)
             sorted_texts == [i \in 1 .. Len(sorted_indices) |->
                                 DictGet(chunks, sorted_indices[i]).text]
             last_index == sorted_indices[Len(sorted_indices)]
         IN  [text |-> Strip(JoinSpace(sorted_texts)),
              stt |-> Some(DictGet(chunks, last_index).stt_ms)]

\* get_session_indices
GetSessionIndices(session_id) ==
    IF session_id \notin DOMAIN active_sessions THEN <<>>
    ELSE DictKeys(active_sessions[session_id])

\* Before any finalize_session call on a session.
NoReturn == [text |-> <<>>, stt |-> None, called |-> FALSE, uploads |-> <<>>,
             prev_text |-> <<>>]

(***************************************************************************)
(* Session store operations; each runs under the store lock.               *)
(***************************************************************************)
SessStart ==
    /\ active_sessions = [s \in {} |-> <<>>]
    /\ calls = [s \in Sessions |-> <<>>]
    /\ ret = [s \in Sessions |-> NoReturn]
    /\ finCount = [s \in Sessions |-> 0]
    /\ nAdds = 0

AddChunkText(session_id, index, text, stt_ms) ==
    /\ nAdds < MaxCalls
    /\ LET old == IF session_id \in DOMAIN active_sessions
                  THEN active_sessions[session_id] ELSE <<>>
       IN  active_sessions' =
               [s \in DOMAIN active_sessions \cup {session_id} |->
                   IF s = session_id THEN DictSet(old, index, text, stt_ms)
                   ELSE active_sessions[s]]
    /\ calls' = [calls EXCEPT ![session_id] =
                    Append(@, [index |-> index, text |-> text, stt_ms |-> stt_ms])]
    /\ finCount' = [finCount EXCEPT ![session_id] = 0]
    /\ nAdds' = nAdds + 1
    /\ UNCHANGED ret

FinalizeSession(session_id) ==
    /\ finCount[session_id] < 2
    /\ LET chunks == PoppedChunks(active_sessions, session_id)
           r == FinalizeResult(chunks)
       IN  /\ active_sessions' = SessionsAfterPop(active_sessions, session_id)
           /\ ret' = [ret EXCEPT ![session_id] =
                         [text |-> r.text, stt |-> r.stt, called |-> TRUE,
                          uploads |-> calls[session_id],
                          prev_text |-> ret[session_id].text]]
    /\ calls' = [calls EXCEPT ![session_id] = <<>>]
    /\ finCount' = [finCount EXCEPT ![session_id] = @ + 1]
    /\ UNCHANGED nAdds

\* clear_all, as far as the sessions go
ClearAll ==
    /\ active_sessions # [s \in {} |-> <<>>]
    /\ active_sessions' = [s \in {} |-> <<>>]
    /\ calls' = [s \in Sessions |-> <<>>]
    /\ UNCHANGED <<ret, finCount, nAdds>>

(***************************************************************************)
(* The streaming sentence segmenter (llm_service.py).                      *)
(***************************************************************************)
MaxTokens == 4

\* "<novoice>"
NovoiceOpen == <<"<", "n", "o", "v", "o", "i", "c", "e", ">">>

\* The pieces generated texts are built from: a letter, a sentence-terminal
\* character, a whitespace character and the open delimiter.
Tokens == { <<"a">>, <<".">>, <<" ">>, NovoiceOpen }

RECURSIVE Flatten(_)
Flatten(seqs) ==
    IF seqs = <<>> THEN <<>> ELSE Head(seqs) \o Flatten(Tail(seqs))

\* Texts built from up to MaxTokens tokens.
TokenTexts ==
    { Flatten(ts) : ts \in UNION { [1 .. k -> Tokens] : k \in 0 .. MaxTokens } }

\* "</novoice>"
NovoiceClose == <<"<", "/", "n", "o", "v", "o", "i", "c", "e", ">">>

\* Spoken text generated before a metadata region: nothing, one sentence, two
\* sentences, two sentences and a trailing space.
MetaPrefixes == { <<>>, <<"a", ".">>, <<"a", ".", " ", "b", "!">>, <<"a", ".", " ", "b", "!", " ">> }

\* Metadata regions: "price:10|mood:happy", "Price: 1.5 |x", "price:x" and
\* "Mood:5|a:b:c".
MetaBodies == { <<"p", "r", "i", "c", "e", ":", "1", "0", "|", "m", "o", "o", "d", ":", "h", "a", "p", "p", "y">>,
                <<"P", "r", "i", "c", "e", ":", " ", "1", ".", "5", " ", "|", "x">>,
                <<"p", "r", "i", "c", "e", ":", "x">>,
                <<"M", "o", "o", "d", ":", "5", "|", "a", ":", "b", ":", "c">> }

\* Replies that end in a metadata region, closed or cut short.
MetaTexts ==
    { p \o NovoiceOpen \o b \o c :
        p \in MetaPrefixes, b \in MetaBodies, c \in {NovoiceClose, <<>>} }

StreamTexts == TokenTexts \cup MetaTexts

\* The character class [.!?...] of _SENTENCE_SPLIT_RE.
Terminals == {".", "!", "?", "..."}

\* "Hmm, bir sey soyleyemedim." (the reply used when no text was generated)
FallbackText == <<"H", "m", "m", ",", " ", "b", "i", "r", " ", "s", "e", "y", " ",
                  "s", "o", "y", "l", "e", "y", "e", "m", "e", "d", "i", "m", ".">>

\* s[i..] starts with t
StartsAt(s, i, t) ==
    /\ i + Len(t) - 1 <= Len(s)
    /\ \A k \in 1 .. Len(t) : s[i + k - 1] = t[k]

\* t in s
Contains(s, t) == \E i \in 1 .. Len(s) : StartsAt(s, i, t)

\* s.index(t), 1-based; 0 when t is not in s
IndexOf(s, t) ==
    IF Contains(s, t)
    THEN CHOOSE i \in 1 .. Len(s) :
             StartsAt(s, i, t) /\ \A j \in 1 .. i - 1 : ~StartsAt(s, j, t)
    ELSE 0

\* The first position from i on that holds no whitespace (Len(s) + 1 if none).
RECURSIVE SkipSpaces(_, _)
SkipSpaces(s, i) ==
    IF i > Len(s) THEN i
    ELSE IF IsSpace(s[i]) THEN SkipSpaces(s, i + 1) ELSE i

\* _SENTENCE_SPLIT_RE.split(s): cut at every whitespace run that directly
\* follows a sentence-terminal character; the run is dropped.
RECURSIVE SplitFrom(_, _, _, _)
SplitFrom(s, i, cur, parts) ==
    IF i > Len(s) THEN Append(parts, cur)
    ELSE IF IsSpace(s[i]) /\ i > 1 /\ s[i - 1] \in Terminals
         THEN SplitFrom(s, SkipSpaces(s, i), <<>>, Append(parts, cur))
         ELSE SplitFrom(s, i + 1, Append(cur, s[i]), parts)

RegexSplit(s) == SplitFrom(s, 1, <<>>, <<>>)

\* [p.strip() for p in parts if p.strip()]
RECURSIVE StrippedNonEmpty(_)
StrippedNonEmpty(parts) ==
    IF parts = <<>> THEN <<>>
    ELSE IF Strip(Head(parts)) # <<>>
         THEN <<Strip(Head(parts))>> \o StrippedNonEmpty(Tail(parts))
         ELSE StrippedNonEmpty(Tail(parts))

\* _split_buffer
SplitBuffer(buffer) ==
    LET parts == RegexSplit(buffer)
    IN  IF Len(parts) <= 1
        THEN [sentences |-> <<>>, rest |-> buffer]
        ELSE [sentences |-> StrippedNonEmpty(SubSeq(parts, 1, Len(parts) - 1)),
              rest |-> parts[Len(parts)]]

\* The locals of _stream_llm_sentences before the first delta.
SegStart ==
    [buffer |-> <<>>, full_text |-> <<>>, sentence_index |-> 0,
     novoice_buffer |-> <<>>, in_novoice |-> FALSE, first_sentence_ms |-> None,
     units |-> <<>>]

\* (time.perf_counter() - start_time) * 1000; time is not modelled.
Elapsed == Some("ms")

\* if first_sentence_ms is None: first_sentence_ms = ...
FirstSentenceMs(st) ==
    IF st.first_sentence_ms = None THEN Elapsed ELSE st.first_sentence_ms

\* A mutant of NextSentenceIndex: the counter is not advanced.
NextSentenceIndexSame(i) == i

\* sentence_index += 1
NextSentenceIndex(i) == i + 1

\* full_text += s + " "; yield {"type": "sentence", "text": s.strip(), "index": ...}
RECURSIVE EmitSentences(_, _)
EmitSentences(st, sents) ==
    IF sents = <<>> THEN st
    ELSE LET s == Head(sents)
             next == IF Strip(s) # <<>>
                     THEN [st EXCEPT
                             !.full_text = @ \o s \o <<" ">>,
                             !.first_sentence_ms = FirstSentenceMs(st),
                             !.units = Append(@, [text |-> Strip(s),
                                                  index |-> st.sentence_index]),
                             !.sentence_index = NextSentenceIndex(@)]
                     ELSE st
         IN  EmitSentences(next, Tail(sents))

\* A mutant of BeforeTag: the text before the delimiter is not cut off.
BeforeTagWhole(buffer, idx) == buffer

\* before = buffer[:idx]
BeforeTag(buffer, idx) == SubSeq(buffer, 1, idx - 1)

\* A mutant of SegDelta: the delimiter is looked for in the delta, not in the
\* accumulated buffer.
SegDeltaPerDelta(st, delta) ==
    IF st.in_novoice
    THEN [st EXCEPT !.novoice_buffer = @ \o delta]
    ELSE LET buffer == st.buffer \o delta
         IN  IF Contains(delta, NovoiceOpen)
             THEN LET idx == IndexOf(buffer, NovoiceOpen)
                      sp == SplitBuffer(BeforeTag(buffer, idx))
                      st1 == [st EXCEPT !.novoice_buffer = SubSeq(buffer, idx, Len(buffer)),
                                        !.buffer = <<>>,
                                        !.in_novoice = TRUE]
                  IN  EmitSentences(st1, Append(sp.sentences, sp.rest))
             ELSE LET sp == SplitBuffer(buffer)
                  IN  EmitSentences([st EXCEPT !.buffer = sp.rest], sp.sentences)

\* The body of "async for delta in ..." for one delta.
SegDelta(st, delta) ==
    IF st.in_novoice
    THEN [st EXCEPT !.novoice_buffer = @ \o delta]
    ELSE LET buffer == st.buffer \o delta
         IN  IF Contains(buffer, NovoiceOpen)
             THEN LET idx == IndexOf(buffer, NovoiceOpen)
                      before == BeforeTag(buffer, idx)
                      st1 == [st EXCEPT !.novoice_buffer = SubSeq(buffer, idx, Len(buffer)),
                                        !.buffer = <<>>,
                                        !.in_novoice = TRUE]
                  IN  IF Strip(before) # <<>>
                      THEN LET sp == SplitBuffer(before)
                               st2 == EmitSentences(st1, sp.sentences)
                           IN  IF Strip(sp.rest) # <<>>
                               THEN [st2 EXCEPT
                                       !.full_text = @ \o sp.rest \o <<" ">>,
                                       !.first_sentence_ms = FirstSentenceMs(st2),
                                       !.units = Append(@, [text |-> Strip(sp.rest),
                                                            index |-> st2.sentence_index]),
                                       !.sentence_index = NextSentenceIndex(@)]
                               ELSE st2
                      ELSE st1
             ELSE LET sp == SplitBuffer(buffer)
                  IN  EmitSentences([st EXCEPT !.buffer = sp.rest], sp.sentences)

\* After the delta loop: the final flush of the buffer.
SegFlush(st) ==
    IF Strip(st.buffer) # <<>> /\ ~st.in_novoice
    THEN [st EXCEPT !.full_text = @ \o st.buffer,
                    !.first_sentence_ms = FirstSentenceMs(st),
                    !.units = Append(@, [text |-> Strip(st.buffer),
                                         index |-> st.sentence_index]),
                    !.sentence_index = NextSentenceIndex(@)]
    ELSE st

\* str.lower() of one character, for the upper-case letters used here.
LowerChar(c) ==
    CASE c = "P" -> "p"
      [] c = "N" -> "n"
      [] c = "A" -> "a"
      [] c = "S" -> "s"
      [] c = "M" -> "m"
      [] c = "B" -> "b"
      [] c = "C" -> "c"
      [] OTHER -> c

\* str.lower()
LowerText(t) == [i \in 1 .. Len(t) |-> LowerChar(t[i])]

\* The first position from i on where t starts in s, ignoring case (0 if none).
RECURSIVE FindFrom(_, _, _)
FindFrom(s, i, t) ==
    IF i + Len(t) - 1 > Len(s) THEN 0
    ELSE IF StartsAt(LowerText(s), i, t) THEN i
    ELSE FindFrom(s, i + 1, t)

\* A mutant of NovoiceMatch: a region without a close tag runs to the end of
\* the text.
NovoiceMatchToEnd(t) ==
    LET open == FindFrom(t, 1, NovoiceOpen)
        close == IF open = 0 THEN 0
                 ELSE FindFrom(t, open + Len(NovoiceOpen), NovoiceClose)
    IN  IF open = 0 THEN None
        ELSE Some(SubSeq(t, open + Len(NovoiceOpen),
                         IF close = 0 THEN Len(t) ELSE close - 1))

\* _NOVOICE_RE.search(text): group(1) of the first match, or None. The match
\* is the first open tag that has a close tag after it, up to the nearest one.
NovoiceMatch(t) ==
    LET open == FindFrom(t, 1, NovoiceOpen)
        close == IF open = 0 THEN 0
                 ELSE FindFrom(t, open + Len(NovoiceOpen), NovoiceClose)
    IN  IF close = 0 THEN None
        ELSE Some(SubSeq(t, open + Len(NovoiceOpen), close - 1))

\* str.split(sep) for a one-character separator
RECURSIVE SplitOn(_, _, _, _)
SplitOn(s, sep, cur, parts) ==
    IF s = <<>> THEN Append(parts, cur)
    ELSE IF Head(s) = sep
         THEN SplitOn(Tail(s), sep, <<>>, Append(parts, cur))
         ELSE SplitOn(Tail(s), sep, Append(cur, Head(s)), parts)

Digits == <<"0", "1", "2", "3", "4", "5", "6", "7", "8", "9">>

IsDigit(c) == \E i \in 1 .. 10 : Digits[i] = c

DigitValue(c) == (CHOOSE i \in 1 .. 10 : Digits[i] = c) - 1

RECURSIVE DecimalValue(_, _)
DecimalValue(t, acc) ==
    IF t = <<>> THEN acc ELSE DecimalValue(Tail(t), 10 * acc + DigitValue(Head(t)))

\* int(value), float(value), else the text itself; for values written with
\* digits, "." and letters.
PriceValue(value) ==
    IF value # <<>> /\ \A i \in 1 .. Len(value) : IsDigit(value[i])
    THEN [kind |-> "int", int |-> DecimalValue(value, 0)]
    ELSE IF /\ \A i \in 1 .. Len(value) : IsDigit(value[i]) \/ value[i] = "."
            /\ Cardinality({i \in 1 .. Len(value) : value[i] = "."}) = 1
            /\ \E i \in 1 .. Len(value) : IsDigit(value[i])
         THEN [kind |-> "float", text |-> value]
         ELSE [kind |-> "str", text |-> value]

\* A mutant of MetaValue: the price is kept as text.
MetaValueText(key, value) == [kind |-> "str", text |-> value]

\* if key == "price": try int, then float
MetaValue(key, value) ==
    IF key = <<"p", "r", "i", "c", "e">>
    THEN PriceValue(value)
    ELSE [kind |-> "str", text |-> value]

\* The loop over the parts: metadata[key] = value for each part holding ":".
RECURSIVE MetaOfParts(_, _)
MetaOfParts(parts, metadata) ==
    IF parts = <<>> THEN metadata
    ELSE LET part == Strip(Head(parts))
             colon == IndexOf(part, <<":">>)
         IN  IF colon = 0 THEN MetaOfParts(Tail(parts), metadata)
             ELSE LET key == LowerText(Strip(SubSeq(part, 1, colon - 1)))
                      value == Strip(SubSeq(part, colon + 1, Len(part)))
                  IN  MetaOfParts(Tail(parts),
                          [k \in DOMAIN metadata \cup {key} |->
                              IF k = key THEN MetaValue(key, value) ELSE metadata[k]])

\* The empty metadata dict.
NoMeta == [k \in {} |-> <<>>]

\* _parse_novoice(text)[0]
ParseNovoice(t) ==
    IF NovoiceMatch(t) = None THEN NoMeta
    ELSE MetaOfParts(SplitOn(Strip(NovoiceMatch(t)[1]), "|", <<>>, <<>>), NoMeta)

\* The done event built from the locals after the final flush.
DoneEvent(st) ==
    LET clean_text == Strip(st.full_text)
    IN  [type |-> "done",
         full_text |-> IF clean_text = <<>> THEN FallbackText ELSE clean_text,
         novoice |-> IF st.novoice_buffer # <<>>
                     THEN ParseNovoice(st.novoice_buffer) ELSE NoMeta,
         sentence_count |-> st.sentence_index]

\* Before the done event.
NoEvent == [type |-> "none"]

SegIdle ==
    /\ llm_text = <<>>
    /\ pos = 0
    /\ seg = SegStart
    /\ segPc = "idle"
    /\ done_event = NoEvent

SegInit ==
    /\ llm_text \in StreamTexts
    /\ pos = 0
    /\ seg = SegStart
    /\ segPc = "streaming"
    /\ done_event = NoEvent

\* The provider delivers the next delta (never empty), of any length.
SegOnDelta ==
    /\ segPc = "streaming"
    /\ pos < Len(llm_text)
    /\ \E n \in 1 .. Len(llm_text) - pos :
           /\ seg' = SegDelta(seg, SubSeq(llm_text, pos + 1, pos + n))
           /\ pos' = pos + n
    /\ UNCHANGED <<llm_text, segPc, done_event>>

\* The completion log line formats first_sentence_ms with ":.0f", which
\* raises TypeError when it is None.
LogLineRaises(st) == st.first_sentence_ms = None

\* The provider's stream ends: final flush, the completion log line, then the
\* done event.
SegOnEnd ==
    /\ segPc = "streaming"
    /\ pos = Len(llm_text)
    /\ seg' = SegFlush(seg)
    /\ IF LogLineRaises(SegFlush(seg))
       THEN segPc' = "type_error" /\ UNCHANGED done_event
       ELSE segPc' = "done" /\ done_event' = DoneEvent(SegFlush(seg))
    /\ UNCHANGED <<llm_text, pos>>

\* The provider's stream raises: RuntimeError is raised, no done event.
SegOnError ==
    /\ segPc = "streaming"
    /\ segPc' = "failed"
    /\ UNCHANGED <<llm_text, pos, seg, done_event>>

(***************************************************************************)
(* The streaming pipeline of _create_streaming_sse_generator (main.py):    *)
(* llm_producer (a task on the event loop), tts_worker (a thread) and the  *)
(* output loop of sse_generator (on the event loop).                       *)
(***************************************************************************)
MaxSentences == 3

MaxChunks == 2

\* Python's None as a queue item.
QNone == [type |-> "None"]

\* An empty dict.
EmptyDict == <<>>

\* dict.get(key, default)
GetOr(d, key, default) == IF key \in DOMAIN d THEN d[key] ELSE default

\* The text of the i-th sentence the generation stream yields.
SentenceItem(i) == [type |-> "text", sentence |-> i]

\* The reply text made of the first k sentences.
FullText(k) == [i \in 1 .. k |-> i]

\* The done item of the generation stream after k sentences.
LlmDoneItem(k) ==
    [type |-> "done", full_text |-> FullText(k),
     novoice |-> [price |-> 10, mood |-> "happy"], sentence_count |-> k]

\* The done item of the non-streaming mode (USE_GEMINI_API off, the default):
\* the whole reply was yielded as one sentence, and the item carries neither
\* sentence_count nor first_sentence_ms.
FallbackDoneItem ==
    [type |-> "done", full_text |-> FullText(1),
     novoice |-> [price |-> 10, mood |-> "happy"]]

\* The done items a generation stream that yielded k sentences can end with:
\* the streaming mode's, and after exactly one sentence the non-streaming
\* mode's as well.
DoneItems(k) ==
    {LlmDoneItem(k)} \cup (IF k = 1 THEN {FallbackDoneItem} ELSE {})

\* The k-th audio event text_to_speech_stream yields for sentence i.
TtsAudio(i, k) == [type |-> "audio", audio |-> <<i, k>>, chunk_index |-> k]

\* The first event of the stream (timing fields left out).
MetadataEvent ==
    [type |-> "metadata", npc_text |-> <<>>, action |-> "", price |-> 0,
     mood |-> "", note |-> ""]

\* A mutant of FirstEvents: no metadata event is sent.
FirstEventsNone == <<>>

\* yield metadata, before the queues and the two stages exist
FirstEvents == <<MetadataEvent>>

\* A mutant of SentencePut: the end-of-sentences sentinel is not put.
SentencePutNoSentinel(q, item) == IF item = QNone THEN q ELSE Append(q, item)

\* A mutant of AudioPut: the sentinel is put twice.
AudioPutSentinelTwice(q, item) ==
    IF item = QNone THEN q \o <<QNone, QNone>> ELSE Append(q, item)

\* A mutant of SentencePut: sentences are held back, only the sentinel is put.
SentencePutOnlySentinel(q, item) == IF item = QNone THEN Append(q, item) ELSE q

\* A mutant of SentencePut: a LIFO queue.
SentencePutFront(q, item) == <<item>> \o q

\* sentence_q.put(item)
SentencePut(q, item) == Append(q, item)

\* A mutant of AudioPut: a queue of capacity one that drops what does not fit.
AudioPutBounded(q, item) == IF Len(q) >= 1 THEN q ELSE Append(q, item)

\* audio_q.put_nowait(item): the item is appended
AudioPut(q, item) == Append(q, item)

\* audio_q.put_nowait(item): a registered getter is woken. The call is made
\* from the worker thread on a queue that is not thread-safe.
WakeGetter(pc) == IF pc = "waiting" THEN "woken" ELSE pc

\* A mutant of ChunkIndex: the index text_to_speech_stream gave is kept.
ChunkIndexOfTts(g, chunk) == chunk.chunk_index

\* global_chunk_index += 1; chunk["chunk_index"] = global_chunk_index
ChunkIndex(g, chunk) == g + 1

\* The terminal event (timing fields left out).
SseDoneEvent(info, chunk_count) ==
    LET novoice == GetOr(info, "novoice", EmptyDict)
    IN  [type |-> "done",
         npc_text |-> GetOr(info, "full_text", <<>>),
         action |-> GetOr(novoice, "action", ""),
         price |-> GetOr(novoice, "price", 0),
         mood |-> GetOr(novoice, "mood", ""),
         note |-> GetOr(novoice, "note", ""),
         sentence_count |-> GetOr(info, "sentence_count", 0),
         chunk_count |-> chunk_count]

PipeIdle ==
    /\ llmPc = "idle"
    /\ llm_yielded = 0
    /\ sentence_q = <<>>
    /\ llm_done_info = EmptyDict
    /\ ttsPc = "idle"
    /\ synth = <<>>
    /\ audio_q = <<>>
    /\ ssePc = "idle"
    /\ global_chunk_index = 0
    /\ events = <<>>
    /\ history = <<>>

PipeInit ==
    /\ llmPc = "idle"
    /\ llm_yielded = 0
    /\ sentence_q = <<>>
    /\ llm_done_info = EmptyDict
    /\ ttsPc = "idle"
    /\ synth = <<>>
    /\ audio_q = <<>>
    /\ ssePc = "start"
    /\ global_chunk_index = 0
    /\ events = <<>>
    /\ history = <<>>

\* sse_generator up to the start of the two stages: the metadata event is
\* yielded, then the queues are made and llm_producer and tts_worker started.
SseStart ==
    /\ ssePc = "start"
    /\ events' = FirstEvents
    /\ ssePc' = "loop"
    /\ llmPc' = "running"
    /\ ttsPc' = "get"
    /\ UNCHANGED <<llm_yielded, sentence_q, llm_done_info, synth, audio_q,
                   global_chunk_index, history>>

\* llm_producer runs on the event loop: not while sse_generator is between
\* awaits.
LoopFree == ssePc # "registering"

\* llm_producer: the generation stream yields a sentence item.
LlmSentence ==
    /\ llmPc = "running"
    /\ LoopFree
    /\ llm_yielded < MaxSentences
    /\ llm_yielded' = llm_yielded + 1
    /\ sentence_q' = SentencePut(sentence_q, SentenceItem(llm_yielded + 1))
    /\ UNCHANGED <<llmPc, llm_done_info, ttsPc, synth, audio_q, ssePc,
                   global_chunk_index, events, history>>

\* llm_producer: the generation stream yields its done item and ends. The
\* stream yields it only after at least one sentence (see LogLineRaises); the
\* two generation modes differ, for the producer, in the done item only.
LlmDone ==
    /\ llmPc = "running"
    /\ LoopFree
    /\ llm_yielded >= 1
    /\ \E item \in DoneItems(llm_yielded) : llm_done_info' = item
    /\ sentence_q' = SentencePut(sentence_q, QNone)
    /\ llmPc' = "finished"
    /\ UNCHANGED <<llm_yielded, ttsPc, synth, audio_q, ssePc,
                   global_chunk_index, events, history>>

\* llm_producer: the generation stream raises.
LlmError ==
    /\ llmPc = "running"
    /\ LoopFree
    /\ llm_done_info' = [error |-> "e"]
    /\ sentence_q' = SentencePut(sentence_q, QNone)
    /\ llmPc' = "finished"
    /\ UNCHANGED <<llm_yielded, ttsPc, synth, audio_q, ssePc,
                   global_chunk_index, events, history>>

\* tts_worker: sentence_q.get(); on None the sentinel is put and the worker
\* ends, otherwise synthesis of the sentence starts.
WorkerGet ==
    /\ ttsPc = "get"
    /\ sentence_q # <<>>
    /\ sentence_q' = Tail(sentence_q)
    /\ IF Head(sentence_q) = QNone
       THEN /\ audio_q' = AudioPut(audio_q, QNone)
            /\ ssePc' = WakeGetter(ssePc)
            /\ ttsPc' = "exit"
            /\ UNCHANGED synth
       ELSE /\ synth' = Append(synth, [sentence |-> Head(sentence_q).sentence,
                                       yielded |-> 0, outcome |-> "running"])
            /\ ttsPc' = "synth"
            /\ UNCHANGED <<audio_q, ssePc>>
    /\ UNCHANGED <<llmPc, llm_yielded, llm_done_info, global_chunk_index,
                   events, history>>

\* tts_worker: text_to_speech_stream yields an audio event, which is forwarded.
WorkerAudio ==
    /\ ttsPc = "synth"
    /\ LET cur == synth[Len(synth)]
       IN  /\ cur.yielded < MaxChunks
           /\ synth' = [synth EXCEPT ![Len(synth)].yielded = @ + 1]
           /\ audio_q' = AudioPut(audio_q, TtsAudio(cur.sentence, cur.yielded + 1))
    /\ ssePc' = WakeGetter(ssePc)
    /\ UNCHANGED <<llmPc, llm_yielded, sentence_q, llm_done_info, ttsPc,
                   global_chunk_index, events, history>>

\* tts_worker: text_to_speech_stream ends for the sentence, with its done
\* event ("done") or after a failure ("failed": an error event, a partial done
\* event or an exception); none of these is forwarded.
WorkerSentenceEnd(outcome) ==
    /\ ttsPc = "synth"
    /\ synth' = [synth EXCEPT ![Len(synth)].outcome = outcome]
    /\ ttsPc' = "get"
    /\ UNCHANGED <<llmPc, llm_yielded, sentence_q, llm_done_info, audio_q, ssePc,
                   global_chunk_index, events, history>>

\* sse_generator: audio_q.get() finds an item (and the event is yielded, or
\* the loop is left on None), or finds the queue empty.
SseGet ==
    /\ ssePc = "loop"
    /\ IF audio_q = <<>>
       THEN /\ ssePc' = "registering"
            /\ UNCHANGED <<audio_q, global_chunk_index, events>>
       ELSE /\ audio_q' = Tail(audio_q)
            /\ IF Head(audio_q) = QNone
               THEN /\ ssePc' = "join"
                    /\ UNCHANGED <<global_chunk_index, events>>
               ELSE /\ global_chunk_index' = ChunkIndex(global_chunk_index, Head(audio_q))
                    /\ events' = Append(events,
                           [Head(audio_q) EXCEPT !.chunk_index =
                               ChunkIndex(global_chunk_index, Head(audio_q))])
                    /\ ssePc' = "loop"
    /\ UNCHANGED <<llmPc, llm_yielded, sentence_q, llm_done_info, ttsPc, synth,
                   history>>

\* sse_generator: audio_q.get() found the queue empty and registers its getter.
SseRegister ==
    /\ ssePc = "registering"
    /\ ssePc' = "waiting"
    /\ UNCHANGED <<llmPc, llm_yielded, sentence_q, llm_done_info, ttsPc, synth,
                   audio_q, global_chunk_index, events, history>>

\* sse_generator: the woken getter resumes and audio_q.get() looks again.
SseResume ==
    /\ ssePc = "woken"
    /\ ssePc' = "loop"
    /\ UNCHANGED <<llmPc, llm_yielded, sentence_q, llm_done_info, ttsPc, synth,
                   audio_q, global_chunk_index, events, history>>

\* sse_generator after the loop: both stages are awaited, the reply is stored
\* and the done event is yielded.
SseJoin ==
    /\ ssePc = "join"
    /\ llmPc = "finished"
    /\ ttsPc = "exit"
    /\ LET npc_text == GetOr(llm_done_info, "full_text", <<>>)
       IN  history' = IF npc_text # <<>>
                      THEN Append(history, [role |-> "assistant", content |-> npc_text])
                      ELSE history
    /\ events' = Append(events, SseDoneEvent(llm_done_info, global_chunk_index))
    /\ ssePc' = "finished"
    /\ UNCHANGED <<llmPc, llm_yielded, sentence_q, llm_done_info, ttsPc, synth,
                   audio_q, global_chunk_index>>

(***************************************************************************)
(* The conversation history of ConversationStore (conversation_store.py).  *)
(* A message is a dict object: lists hold references to it, so the model   *)
(* keeps the objects in a heap and the lists as sequences of references.   *)
(***************************************************************************)
MaxMessages == 2

\* Changes to returned values explored in one run.
MaxMutations == 1

Npcs == {"n1", "n2"}

\* message["content"][:80]
PreviewLen == 80

\* A text longer than the preview.
LongText == [i \in 1 .. PreviewLen + 1 |-> IF i = 1 THEN "l" ELSE "o"]

\* Message texts handed to add_user_message / add_assistant_message.
MessageTexts == { <<"h", "i">>, LongText }

\* A dict object made by the caller, not by the store.
CallerObject == 0

\* What the caller writes into a field of a returned message.
CallerValue(field) == IF field = "role" THEN "system" ELSE <<"x">>

\* The position of npc_id's record in the dict, 0 if it has none.
ConvIndex(convs, npc_id) ==
    IF \E i \in 1 .. Len(convs) : convs[i].npc_id = npc_id
    THEN CHOOSE i \in 1 .. Len(convs) : convs[i].npc_id = npc_id
    ELSE 0

\* npc_id in self._conversations
HasConversation(convs, npc_id) == ConvIndex(convs, npc_id) # 0

\* _ensure_conversation
EnsureConversation(convs, npc_id) ==
    IF HasConversation(convs, npc_id) THEN convs
    ELSE Append(convs, [npc_id |-> npc_id, messages |-> <<>>])

\* A mutant of AppendMessage: the new message is put first.
AppendMessageFirst(messages, ref) == <<ref>> \o messages

\* conv["messages"].append(message)
AppendMessage(messages, ref) == Append(messages, ref)

\* list(conv["messages"]): a new list holding the same message objects
ListCopy(messages) == messages

\* The messages a list of references stands for.
Deref(h, refs) == [i \in 1 .. Len(refs) |-> h[refs[i]]]

\* What get_messages(npc_id) returns, as values.
Messages(convs, h, npc_id) ==
    IF HasConversation(convs, npc_id)
    THEN Deref(h, convs[ConvIndex(convs, npc_id)].messages)
    ELSE <<>>

\* No read yet.
NoHeld == [kind |-> "none", lists |-> [n \in {} |-> <<>>]]

\* No clear_conversation call was the last operation.
NoOp == [op |-> "other"]

HistIdle ==
    /\ conversations = <<>>
    /\ heap = <<>>
    /\ held = NoHeld
    /\ lastOp = NoOp
    /\ nMutations = 0

HistStart ==
    /\ conversations = <<>>
    /\ heap = <<>>
    /\ held = NoHeld
    /\ lastOp = NoOp
    /\ nMutations = 0

\* add_user_message / add_assistant_message. (The caller of an earlier read
\* is followed only up to the next change of the store.)
AddMessage(role, npc_id, text) ==
    /\ Len(heap) < MaxMessages
    /\ heap' = Append(heap, [role |-> role, content |-> text])
    /\ LET convs == EnsureConversation(conversations, npc_id)
           i == ConvIndex(convs, npc_id)
       IN  conversations' =
               [convs EXCEPT ![i].messages = AppendMessage(@, Len(heap) + 1)]
    /\ lastOp' = NoOp
    /\ held' = NoHeld
    /\ UNCHANGED nMutations

AddUserMessage(npc_id, text) == AddMessage("user", npc_id, text)

AddAssistantMessage(npc_id, text) == AddMessage("assistant", npc_id, text)

\* get_messages
GetMessages(npc_id) ==
    /\ held' = IF HasConversation(conversations, npc_id)
               THEN [kind |-> "messages",
                     lists |-> [n \in {npc_id} |->
                         ListCopy(conversations[ConvIndex(conversations, npc_id)].messages)]]
               ELSE [kind |-> "messages",
                     lists |-> [n \in {npc_id} |-> <<>>]]
    /\ lastOp' = NoOp
    /\ UNCHANGED <<conversations, heap, nMutations>>

\* get_conversation
GetConversation(npc_id) ==
    /\ held' = IF HasConversation(conversations, npc_id)
               THEN [kind |-> "conversation",
                     lists |-> [n \in {npc_id} |->
                         ListCopy(conversations[ConvIndex(conversations, npc_id)].messages)]]
               ELSE [kind |-> "None", lists |-> [n \in {} |-> <<>>]]
    /\ lastOp' = NoOp
    /\ UNCHANGED <<conversations, heap, nMutations>>

\* get_all_conversations
GetAllConversations ==
    /\ held' = [kind |-> "all",
                lists |-> [n \in {conversations[i].npc_id : i \in 1 .. Len(conversations)} |->
                    ListCopy(conversations[ConvIndex(conversations, n)].messages)]]
    /\ lastOp' = NoOp
    /\ UNCHANGED <<conversations, heap, nMutations>>

\* The caller changes a list it was given: the list is the caller's own.
CallerSetList(npc_id, refs) ==
    /\ held' = [held EXCEPT !.lists[npc_id] = refs]
    /\ UNCHANGED <<conversations, heap>>

\* The caller appends a message of its own to a returned list.
CallerAppend(npc_id) ==
    /\ nMutations < MaxMutations
    /\ nMutations' = nMutations + 1
    /\ npc_id \in DOMAIN held.lists
    /\ CallerSetList(npc_id, Append(held.lists[npc_id], CallerObject))
    /\ lastOp' = NoOp

\* The caller removes the first element of a returned list.
CallerRemove(npc_id) ==
    /\ nMutations < MaxMutations
    /\ nMutations' = nMutations + 1
    /\ npc_id \in DOMAIN held.lists
    /\ held.lists[npc_id] # <<>>
    /\ CallerSetList(npc_id, Tail(held.lists[npc_id]))
    /\ lastOp' = NoOp

\* The caller reverses a returned list.
CallerReverse(npc_id) ==
    /\ nMutations < MaxMutations
    /\ nMutations' = nMutations + 1
    /\ npc_id \in DOMAIN held.lists
    /\ Len(held.lists[npc_id]) >= 2
    /\ LET refs == held.lists[npc_id]
       IN  CallerSetList(npc_id, [i \in 1 .. Len(refs) |-> refs[Len(refs) + 1 - i]])
    /\ lastOp' = NoOp

\* The caller assigns to the role or the content of a returned message: the
\* message object is the one the store's list holds.
CallerSetField(npc_id, i, field) ==
    /\ nMutations < MaxMutations
    /\ nMutations' = nMutations + 1
    /\ npc_id \in DOMAIN held.lists
    /\ i \in 1 .. Len(held.lists[npc_id])
    /\ held.lists[npc_id][i] # CallerObject
    /\ heap' = [heap EXCEPT ![held.lists[npc_id][i]][field] = CallerValue(field)]
    /\ UNCHANGED held
    /\ lastOp' = NoOp
    /\ UNCHANGED conversations

\* exclude_npc_id: a character, or None.
ExcludeChoices == Npcs \cup {"None"}

\* "Diger NPC konusmalari:" (the first line of a non-empty summary)
SummaryHeader == [header |-> "Diger NPC konusmalari:"]

\* A mutant of Preview: the whole content.
PreviewWhole(content) == content

\* last_msg["content"][:80]
Preview(content) ==
    SubSeq(content, 1, IF Len(content) < PreviewLen THEN Len(content) ELSE PreviewLen)

\* The loop over self._conversations.items(): one line per record that is not
\* the excluded one and has messages.
RECURSIVE SummaryLines(_, _, _)
SummaryLines(convs, h, exclude_npc_id) ==
    IF convs = <<>> THEN <<>>
    ELSE LET conv == Head(convs)
             rest == SummaryLines(Tail(convs), h, exclude_npc_id)
         IN  IF conv.npc_id = exclude_npc_id \/ Len(conv.messages) = 0
             THEN rest
             ELSE LET last_msg == h[conv.messages[Len(conv.messages)]]
                  IN  <<[npc_id |-> conv.npc_id,
                         msg_count |-> Len(conv.messages),
                         role |-> last_msg.role,
                         preview |-> Preview(last_msg.content)]>> \o rest

\* get_summary_for_context's return value as its lines; "" is <<>>.
SummaryText(convs, h, exclude_npc_id) ==
    LET summaries == SummaryLines(convs, h, exclude_npc_id)
    IN  IF summaries = <<>> THEN <<>> ELSE <<SummaryHeader>> \o summaries

\* get_summary_for_context
GetSummaryForContext(exclude_npc_id) ==
    /\ held' = [kind |-> "summary", lists |-> [n \in {} |-> <<>>],
                exclude |-> exclude_npc_id,
                summary |-> SummaryText(conversations, heap, exclude_npc_id)]
    /\ lastOp' = NoOp
    /\ UNCHANGED <<conversations, heap, nMutations>>

\* A mutant of ClearedMessages: the messages are kept.
ClearedMessagesKept(messages) == messages

\* self._conversations[npc_id]["messages"] = []
ClearedMessages(messages) == <<>>

\* clear_conversation
ClearConversation(npc_id) ==
    /\ IF HasConversation(conversations, npc_id)
       THEN /\ conversations' =
                   [conversations EXCEPT
                       ![ConvIndex(conversations, npc_id)].messages = ClearedMessages(@)]
            /\ lastOp' = [op |-> "clear_conversation", result |-> TRUE]
       ELSE /\ UNCHANGED conversations
            /\ lastOp' = [op |-> "clear_conversation", result |-> FALSE]
    /\ held' = NoHeld
    /\ UNCHANGED <<heap, nMutations>>

\* clear_all, as far as the conversations go (no session is open here)
HistClearAll ==
    /\ conversations' = <<>>
    /\ lastOp' = NoOp
    /\ held' = NoHeld
    /\ UNCHANGED <<heap, nMutations>>

(***************************************************************************)
(* _wait_for_missing_chunks (main.py) followed by finalize_session, as     *)
(* /talk and /talk_stream call them, while fragments may still be uploaded.*)
(***************************************************************************)
\* timeout: float = 2.0, in milliseconds
TimeoutMs == 2000

\* asyncio.sleep(0.1), in milliseconds
SleepMs == 100

\* The session the request names.
WaitedSession == "s1"

\* min(indices)
MinOf(indices) ==
    CHOOSE m \in {indices[k] : k \in 1 .. Len(indices)} :
        \A k \in 1 .. Len(indices) : m <= indices[k]

\* max(indices)
MaxOf(indices) ==
    CHOOSE m \in {indices[k] : k \in 1 .. Len(indices)} :
        \A k \in 1 .. Len(indices) : m >= indices[k]

\* A mutant of Missing: the expected range runs one past the highest index.
MissingPastMax(indices) ==
    (MinOf(indices) .. MaxOf(indices) + 1) \ {indices[k] : k \in 1 .. Len(indices)}

\* A mutant of Missing: no index is ever missed.
MissingNone(indices) == {}

\* missing = set(range(min_idx, max_idx + 1)) - set(indices)
Missing(indices) ==
    (MinOf(indices) .. MaxOf(indices)) \ {indices[k] : k \in 1 .. Len(indices)}

WaitIdle ==
    wait = [pc |-> "idle", elapsed |-> 0, arrived |-> FALSE, how |-> "none"]

WaitStart0 ==
    wait = [pc |-> "before", elapsed |-> 0, arrived |-> FALSE, how |-> "none"]

\* /upload_audio_chunk stores a fragment of the session, before or during
\* the wait.
WaitUpload(index, text, stt_ms) ==
    /\ wait.pc \in {"before", "loop", "sleep"}
    /\ AddChunkText(WaitedSession, index, text, stt_ms)
    /\ wait' = [wait EXCEPT !.arrived = @ \/ wait.pc # "before"]

\* start_time = time.perf_counter()
WaitBegin ==
    /\ wait.pc = "before"
    /\ wait' = [wait EXCEPT !.pc = "loop"]
    /\ UNCHANGED sessVars

\* One pass of the while loop up to the sleep: the time test, the read of
\* the indices, the gap test.
WaitLoop ==
    /\ wait.pc = "loop"
    /\ LET indices == GetSessionIndices(WaitedSession)
       IN  wait' =
               IF ~(wait.elapsed < TimeoutMs)
               THEN [wait EXCEPT !.pc = "returned", !.how = "timeout"]
               ELSE IF indices = <<>>
               THEN [wait EXCEPT !.pc = "returned", !.how = "no_indices"]
               ELSE IF Missing(indices) = {}
               THEN [wait EXCEPT !.pc = "returned", !.how = "complete"]
               ELSE [wait EXCEPT !.pc = "sleep"]
    /\ UNCHANGED sessVars

\* await asyncio.sleep(0.1): at least the delay passes, possibly more.
WaitSleep ==
    /\ wait.pc = "sleep"
    /\ \E d \in {SleepMs, 2 * SleepMs} :
           wait' = [wait EXCEPT !.pc = "loop", !.elapsed = @ + d]
    /\ UNCHANGED sessVars

\* stored_text, last_chunk_stt_ms = store.finalize_session(session_id)
WaitFinalize ==
    /\ wait.pc = "returned"
    /\ FinalizeSession(WaitedSession)
    /\ wait' = [wait EXCEPT !.pc = "finalized"]

(***************************************************************************)
(* The /talk and /talk_stream handlers (main.py): character lookup,        *)
(* transcript assembly from the stored fragments and the final audio,      *)
(* validation, then the pipeline (history, generation, synthesis).         *)
(* Requests are handled one after another.                                 *)
(***************************************************************************)
\* Requests explored in one run.
MaxRequests == 2

Endpoints == {"talk", "talk_stream"}

\* registry.get_npc(npc_id) is None for this id.
UnknownNpc == "ghost"

\* The final audio of a request: absent, zero bytes, or speech.
AudioChoices == {"none", "empty", "speech"}

\* stt_result["text"] of the final audio.
SttTexts == {<<>>, <<" ">>, <<"h", "i">>}

\* The recognized text of an uploaded fragment (stored stripped, non-empty).
UploadedText == <<"a">>

\* llm_result["text"] / full_text of a reply.
ReplyText == <<"o", "k">>

\* registry.get_npc(npc_id): a configuration, or None
GetNpc(npc_id) == IF npc_id \in Npcs THEN Some(npc_id) ELSE None

\* if stored_text: final_user_text += stored_text + " "
WithStored(final_user_text, stored_text) ==
    IF stored_text # <<>> THEN final_user_text \o stored_text \o <<" ">>
    ELSE final_user_text

\* current_text = stt_result["text"].strip();
\* if current_text: final_user_text += current_text
WithCurrent(final_user_text, stt_text) ==
    IF Strip(stt_text) # <<>> THEN final_user_text \o Strip(stt_text)
    ELSE final_user_text

\* A mutant of PassesValidation: the handler goes on after the empty
\* transcript was refused.
PassesValidationAlways(user_text) == TRUE

\* if not final_user_text: raise HTTPException(400) -- the statements after
\* the test run only for a transcript that passes it.
PassesValidation(user_text) == user_text # <<>>

NoRequest ==
    [pc |-> "idle", endpoint |-> "none", npc_id |-> "none",
     session_id |-> None, audio |-> "none", final_user_text |-> <<>>,
     status |-> 0, finalized |-> FALSE, stt |-> FALSE,
     generation |-> FALSE, synthesis |-> FALSE,
     conversations0 |-> <<>>, heap0 |-> <<>>, n |-> 0]

TalkIdle == talk = NoRequest

\* A fragment of an utterance is stored before the requests.
TalkUpload(session_id, index, text, stt_ms) ==
    /\ talk.pc = "idle"
    /\ AddChunkText(session_id, index, text, stt_ms)
    /\ UNCHANGED <<talk, histVars>>

\* The request arrives: npc_config = registry.get_npc(npc_id);
\* if npc_config is None: raise HTTPException(404)
TalkRequest(endpoint, npc_id, session_id, audio) ==
    /\ talk.pc \in {"idle", "responded"}
    /\ talk.n < MaxRequests
    /\ LET r == [NoRequest EXCEPT
                    !.endpoint = endpoint, !.npc_id = npc_id,
                    !.session_id = session_id, !.audio = audio,
                    !.conversations0 = conversations, !.heap0 = heap,
                    !.n = talk.n + 1]
       IN  talk' =
               IF GetNpc(npc_id) = None
               THEN [r EXCEPT !.pc = "responded", !.status = 404]
               ELSE IF session_id # None
               THEN [r EXCEPT !.pc = "stored"]
               ELSE [r EXCEPT !.pc = "audio"]
    /\ UNCHANGED <<sessVars, histVars>>

\* await _wait_for_missing_chunks(session_id);
\* stored_text, _ = store.finalize_session(session_id)
TalkStored ==
    /\ talk.pc = "stored"
    /\ LET session_id == talk.session_id[1]
       IN  /\ FinalizeSession(session_id)
           /\ talk' = [talk EXCEPT
                  !.pc = "audio",
                  !.finalized = TRUE,
                  !.final_user_text =
                      WithStored(@, FinalizeResult(
                          PoppedChunks(active_sessions, session_id)).text)]
    /\ UNCHANGED histVars

\* if audio: audio_bytes = await audio.read(); if len(audio_bytes) > 0:
\* no recognition without bytes.
TalkNoAudio ==
    /\ talk.pc = "audio"
    /\ talk.audio \in {"none", "empty"}
    /\ talk' = [talk EXCEPT !.pc = "validate"]
    /\ UNCHANGED <<sessVars, histVars>>

\* stt_result = await transcribe_audio(audio_bytes, language="tr") returns.
TalkTranscribed(stt_text) ==
    /\ talk.pc = "audio"
    /\ talk.audio = "speech"
    /\ talk' = [talk EXCEPT
           !.pc = "validate",
           !.stt = TRUE,
           !.final_user_text = WithCurrent(@, stt_text)]
    /\ UNCHANGED <<sessVars, histVars>>

\* transcribe_audio raises: 502 if there is no text so far, else go on.
TalkTranscribeFailed ==
    /\ talk.pc = "audio"
    /\ talk.audio = "speech"
    /\ talk' =
           IF talk.final_user_text = <<>>
           THEN [talk EXCEPT !.pc = "responded", !.stt = TRUE, !.status = 502]
           ELSE [talk EXCEPT !.pc = "validate", !.stt = TRUE]
    /\ UNCHANGED <<sessVars, histVars>>

\* final_user_text = final_user_text.strip(); the 400 test; then, with no
\* await in between, store.add_user_message and the start of generation:
\* /talk awaits generate_response, /talk_stream returns the streaming
\* response whose body runs the pipeline.
TalkValidate ==
    /\ talk.pc = "validate"
    /\ LET user_text == Strip(talk.final_user_text)
           r == [talk EXCEPT !.final_user_text = user_text]
       IN  /\ talk' =
                  IF user_text = <<>>
                  THEN [r EXCEPT !.pc = "responded", !.status = 400]
                  ELSE IF talk.endpoint = "talk"
                  THEN [r EXCEPT !.pc = "generating", !.generation = TRUE]
                  ELSE [r EXCEPT !.pc = "streaming", !.status = 200]
           /\ IF PassesValidation(user_text)
              THEN AddUserMessage(talk.npc_id, user_text)
              ELSE UNCHANGED histVars
    /\ UNCHANGED sessVars

\* /talk: generate_response returns; store.add_assistant_message; the
\* synthesis call starts.
TalkGenerated ==
    /\ talk.pc = "generating"
    /\ AddAssistantMessage(talk.npc_id, ReplyText)
    /\ talk' = [talk EXCEPT !.pc = "synthesizing", !.synthesis = TRUE]
    /\ UNCHANGED sessVars

\* /talk: generate_response raises -> 502
TalkGenerateFailed ==
    /\ talk.pc = "generating"
    /\ talk' = [talk EXCEPT !.pc = "responded", !.status = 502]
    /\ UNCHANGED <<sessVars, histVars>>

\* /talk: text_to_speech_wav returns (200) or raises (502).
TalkSynthesized(status) ==
    /\ talk.pc = "synthesizing"
    /\ talk' = [talk EXCEPT !.pc = "responded", !.status = status]
    /\ UNCHANGED <<sessVars, histVars>>

\* /talk_stream: the body of the streaming response ran to its end with a
\* reply: generation and synthesis ran, the reply is stored.
TalkStreamed ==
    /\ talk.pc = "streaming"
    /\ AddAssistantMessage(talk.npc_id, ReplyText)
    /\ talk' = [talk EXCEPT !.pc = "responded", !.generation = TRUE,
                            !.synthesis = TRUE]
    /\ UNCHANGED sessVars

\* /talk_stream: generation failed, before or after sentences were handed
\* to synthesis; no reply is stored.
TalkStreamFailed(synthesis_started) ==
    /\ talk.pc = "streaming"
    /\ talk' = [talk EXCEPT !.pc = "responded", !.generation = TRUE,
                            !.synthesis = synthesis_started]
    /\ UNCHANGED <<sessVars, histVars>>

(***************************************************************************)
(* The caller leaves while the response is streamed: sse_generator is      *)
(* closed at a yield or cancelled at an await (main.py).                   *)
(***************************************************************************)
\* The caller has not left.
Connected == disconnect = [happened |-> FALSE, taken |-> 0]

\* sse_generator is closed or cancelled where it is suspended: at a yield, in
\* audio_q.get(), or awaiting the two stages. It has no try/finally, and
\* neither llm_task nor the worker thread is told anything.
SseDisconnect ==
    /\ ssePc \in {"loop", "waiting", "woken", "join"}
    /\ ssePc' = "closed"
    /\ disconnect' = [happened |-> TRUE, taken |-> Len(synth)]
    /\ UNCHANGED <<llmPc, llm_yielded, sentence_q, llm_done_info, ttsPc, synth,
                   audio_q, global_chunk_index, events, history>>

(***************************************************************************)
(* add_chunk_text and finalize_session called from concurrent threads      *)
(* (conversation_store.py): each call takes the store lock, runs its       *)
(* statements one at a time, and releases the lock on return.              *)
(***************************************************************************)
\* Calls explored in one run.
MaxOps == 4

Threads == {"t1", "t2"}

\* The session the calls name.
LockedSession == "s1"

\* The text of the fragment with index i: a different letter per index.
FragmentText(i) == <<<<"a", "b", "c", "d", "e">>[i + 1]>>

\* A mutant of LockFree: the lock excludes nobody.
LockFreeAlways(l) == TRUE

\* with self._lock: the lock can be taken when nobody holds it
LockFree(l) == l = None

\* A mutant of FinalizePopped: only the first fragment of the popped dict.
FinalizePoppedFirst(sessions, session_id) ==
    IF session_id \in DOMAIN sessions /\ sessions[session_id] # <<>>
    THEN <<sessions[session_id][1]>> ELSE <<>>

\* chunks = self._active_sessions.pop(session_id, {})
FinalizePopped(sessions, session_id) == PoppedChunks(sessions, session_id)

NoCall == [pc |-> "idle", op |-> "none", index |-> 0, chunks |-> <<>>,
           began_at |-> 0]

LockIdle ==
    /\ lock = None
    /\ threads = [t \in Threads |-> NoCall]
    /\ oplog = <<>>

\* The indices of the add_chunk_text calls made so far, returned or not.
AddedIndices ==
    {oplog[k].index : k \in {j \in 1 .. Len(oplog) : oplog[j].op = "add"}}
        \cup {threads[t].index : t \in {u \in Threads : threads[u].op = "add"}}

\* Calls made so far, returned or not.
OpsBegun == Len(oplog) + Cardinality({t \in Threads : threads[t].pc # "idle"})

\* A thread calls add_chunk_text(session_id, index, text) with an index not
\* used before, or finalize_session(session_id).
LockCall(t, op, index) ==
    /\ threads[t].pc = "idle"
    /\ OpsBegun < MaxOps
    /\ op = "add" => index \notin AddedIndices
    /\ threads' = [threads EXCEPT ![t] =
           [NoCall EXCEPT !.pc = "acquire", !.op = op,
                          !.index = IF op = "add" THEN index ELSE 0,
                          !.began_at = Len(oplog)]]
    /\ UNCHANGED <<lock, oplog, sessVars>>

\* with self._lock:
LockAcquire(t) ==
    /\ threads[t].pc = "acquire"
    /\ LockFree(lock)
    /\ lock' = Some(t)
    /\ threads' = [threads EXCEPT ![t].pc =
           IF threads[t].op = "add" THEN "check" ELSE "pop"]
    /\ UNCHANGED <<oplog, sessVars>>

\* add_chunk_text: if session_id not in self._active_sessions:
AddCheck(t) ==
    /\ threads[t].pc = "check"
    /\ threads' = [threads EXCEPT ![t].pc =
           IF LockedSession \notin DOMAIN active_sessions
           THEN "create" ELSE "assign"]
    /\ UNCHANGED <<lock, oplog, sessVars>>

\* add_chunk_text: self._active_sessions[session_id] = {}
AddCreate(t) ==
    /\ threads[t].pc = "create"
    /\ active_sessions' =
           [s \in DOMAIN active_sessions \cup {LockedSession} |->
               IF s = LockedSession THEN <<>> ELSE active_sessions[s]]
    /\ threads' = [threads EXCEPT ![t].pc = "assign"]
    /\ UNCHANGED <<lock, oplog, calls, ret, finCount, nAdds>>

\* add_chunk_text: self._active_sessions[session_id][index] = {...}; a
\* session that is not there raises KeyError.
AddAssign(t) ==
    /\ threads[t].pc = "assign"
    /\ IF LockedSession \in DOMAIN active_sessions
       THEN /\ active_sessions' = [active_sessions EXCEPT ![LockedSession] =
                   DictSet(@, threads[t].index, FragmentText(threads[t].index), 10)]
            /\ threads' = [threads EXCEPT ![t].pc = "release"]
       ELSE /\ threads' = [threads EXCEPT ![t].pc = "release", !.op = "add_raised"]
            /\ UNCHANGED active_sessions
    /\ UNCHANGED <<lock, oplog, calls, ret, finCount, nAdds>>

\* finalize_session: chunks = self._active_sessions.pop(session_id, {})
FinPop(t) ==
    /\ threads[t].pc = "pop"
    /\ threads' = [threads EXCEPT
           ![t].pc = "release",
           ![t].chunks = FinalizePopped(active_sessions, LockedSession)]
    /\ active_sessions' = SessionsAfterPop(active_sessions, LockedSession)
    /\ UNCHANGED <<lock, oplog, calls, ret, finCount, nAdds>>

\* The call returns (finalize_session with the result computed from the
\* popped chunks) and the lock is released.
LockRelease(t) ==
    /\ threads[t].pc = "release"
    /\ lock' = None
    /\ oplog' = Append(oplog,
           [op |-> threads[t].op, index |-> threads[t].index,
            began_at |-> threads[t].began_at,
            chunks |-> threads[t].chunks,
            text |-> IF threads[t].op = "finalize"
                     THEN FinalizeResult(threads[t].chunks).text ELSE <<>>,
            stt |-> IF threads[t].op = "finalize"
                    THEN FinalizeResult(threads[t].chunks).stt ELSE None])
    /\ threads' = [threads EXCEPT ![t] = NoCall]
    /\ UNCHANGED sessVars

(***************************************************************************)
(* /upload_audio_chunk (main.py): a fragment is recognized, filtered and   *)
(* stored. Letters outside ASCII are written as named characters           *)
(* ("i-dotless" is the Turkish dotless i, and so on).                      *)
(***************************************************************************)
\* The session the fragments are uploaded to.
UploadSession == "s1"

\* IGNORE_PHRASES
IgnorePhrases ==
    {
      <<"I-dotted", "y", "i", " ", "g", "u-umlaut", "n", "l", "e", "r",
        ".">>,
      <<"T", "e", "s-cedilla", "e", "k", "k", "u-umlaut", "r", "l", "e",
        "r", ".">>,
      <<"A", "l", "t", "y", "a", "z", "i-dotless", " ", "M", ".", "K",
        ".">>,
      <<"M", "B", "C">>,
      <<"L", "u-umlaut", "t", "f", "e", "n", " ", "a", "b", "o", "n", "e",
        " ", "o", "l", "u", "n", ".">>,
      <<"I-dotted", "z", "l", "e", "d", "i", "g-breve", "i", "n", "i", "z",
        " ", "i", "c-cedilla", "i", "n", " ", "t", "e", "s-cedilla",
        "e", "k", "k", "u-umlaut", "r", "l", "e", "r", ".">>,
      <<"S", "a", "d", "e", "c", "e", " ", "a", "l", "t", "y", "a", "z",
        "i-dotless", ".">>,
      <<"A", "l", "t", "y", "a", "z", "i-dotless">>,
      <<"G", "o-umlaut", "r", "u-umlaut", "s-cedilla", "u-umlaut", "r",
        "u-umlaut", "z", ".">>,
      <<"H", "o", "s-cedilla", "c-cedilla", "a", " ", "k", "a", "l",
        "i-dotless", "n", ".">>,
      <<".", ".", ".">>,
      <<".">>,
      <<>>,
      <<"a", "l", "t", "y", "a", "z", "i-dotless">> }

\* "altyazi" with the dotless i, and "subtitle"
SubtitleWords ==
    { <<"a", "l", "t", "y", "a", "z", "i-dotless">>,
      <<"s", "u", "b", "t", "i", "t", "l", "e">> }

\* A mutant of IsHallucination: nothing is filtered.
IsHallucinationNever(text) == FALSE

\* _is_hallucination(text)
IsHallucination(text) ==
    \/ text = <<>>
    \/ Strip(text) \in IgnorePhrases
    \/ Len(Strip(text)) < 2
    \/ \E w \in SubtitleWords : Contains(LowerText(Strip(text)), w)

\* stt_result["text"] of the fragments uploaded.
UploadTexts ==
    {
      <<>>,
      <<" ">>,
      <<"a">>,
      <<" ", "M", "B", "C", " ">>,
      <<"A", "l", "t", "y", "a", "z", "i-dotless">>,
      <<"S", "u", "b", "t", "i", "t", "l", "e", " ", "x">>,
      <<" ", "o", "k">> }

\* What is uploaded: no bytes, audio whose recognition raises, or audio with
\* a recognized text.
UploadAudios ==
    {[kind |-> "empty", text |-> <<>>], [kind |-> "stt_raises", text |-> <<>>]}
        \cup {[kind |-> "speech", text |-> t] : t \in UploadTexts}

\* The handler's way through upload_audio_chunk for an upload: the status it
\* returns, the stripped text, and whether store.add_chunk_text is called.
UploadOutcome(audio) ==
    LET text == Strip(audio.text)
    IN  IF audio.kind = "empty"
        THEN [status |-> "empty", text |-> <<>>, stored |-> FALSE]
        ELSE IF audio.kind = "stt_raises"
        THEN [status |-> "error", text |-> <<>>, stored |-> FALSE]
        ELSE IF IsHallucination(text)
        THEN [status |-> "ignored", text |-> text, stored |-> FALSE]
        ELSE [status |-> "ok", text |-> text, stored |-> text # <<>>]

NoUpload == [status |-> "none", audio |-> [kind |-> "none", text |-> <<>>],
             stored |-> FALSE]

UploadIdle == upload = NoUpload

\* One /upload_audio_chunk request, from the read of the bytes to the
\* response.
UploadChunk(session_id, index, audio) ==
    LET o == UploadOutcome(audio)
    IN  /\ upload' = [status |-> o.status, audio |-> audio, stored |-> o.stored]
        /\ IF o.stored
           THEN AddChunkText(session_id, index, o.text, 10)
           ELSE UNCHANGED sessVars

(***************************************************************************)
(* Several /talk and /talk_stream requests in flight at once (main.py).    *)
(* The handlers are coroutines on one event loop: a request runs alone     *)
(* from one await to the next, and other requests run at its awaits.       *)
(***************************************************************************)
Requests == {"r1", "r2"}

\* The transcript of each request.
RequestText(r) == IF r = "r1" THEN <<"h", "i">> ELSE <<"y", "o">>

\* A mutant of HistoryForLlm: the last element is not dropped.
HistoryForLlmAll(messages) == messages

\* store.get_messages(npc_id)[:-1]
HistoryForLlm(messages) == SubSeq(messages, 1, Len(messages) - 1)

NoReq ==
    [pc |-> "idle", npc_id |-> "none", user_text |-> <<>>, history_for_llm |-> <<>>]

ReqIdle == reqs = [r \in Requests |-> NoReq]

\* The request has passed its awaits (the wait for fragments, the read of the
\* audio, the recognition) and holds a non-empty transcript.
ReqTranscribed(r, npc_id) ==
    /\ reqs[r].pc = "idle"
    /\ reqs' = [reqs EXCEPT ![r] = [NoReq EXCEPT !.pc = "ready", !.npc_id = npc_id,
                                                 !.user_text = RequestText(r)]]
    /\ UNCHANGED histVars

\* store.add_user_message(npc_id, user_text);
\* history_for_llm = store.get_messages(npc_id)[:-1]
\* -- no await lies between the two statements, and the generation is awaited
\* next.
ReqAppendAndRead(r) ==
    /\ reqs[r].pc = "ready"
    /\ AddUserMessage(reqs[r].npc_id, reqs[r].user_text)
    /\ reqs' = [reqs EXCEPT
                  ![r].pc = "generating",
                  ![r].history_for_llm =
                      HistoryForLlm(Messages(conversations', heap', reqs[r].npc_id))]

\* The generation has ended: store.add_assistant_message(npc_id, text)
ReqReplied(r) ==
    /\ reqs[r].pc = "generating"
    /\ AddAssistantMessage(reqs[r].npc_id, ReplyText)
    /\ reqs' = [reqs EXCEPT ![r].pc = "done"]

\* The generation has failed: nothing more is stored.
ReqFailed(r) ==
    /\ reqs[r].pc = "generating"
    /\ reqs' = [reqs EXCEPT ![r].pc = "done"]
    /\ UNCHANGED histVars

\* DELETE /conversations/{npc_id}, handled while requests are at an await.
ReqClear(npc_id) ==
    /\ ClearConversation(npc_id)
    /\ UNCHANGED reqs

(***************************************************************************)
(* Specifications: one per component, the others idle.                     *)
(***************************************************************************)
SessInit == SessStart /\ SegIdle /\ PipeIdle /\ HistIdle /\ WaitIdle /\ TalkIdle /\ Connected /\ LockIdle /\ UploadIdle /\ ReqIdle

SessNext ==
    \/ \E s \in Sessions, i \in Indices, c \in ChunkResults :
           AddChunkText(s, i, c.text, c.stt_ms) /\ UNCHANGED <<segVars, pipeVars, histVars, waitVars, talkVars, discVars, lockVars, uploadVars, reqVars>>
    \/ \E s \in Sessions : FinalizeSession(s) /\ UNCHANGED <<segVars, pipeVars, histVars, waitVars, talkVars, discVars, lockVars, uploadVars, reqVars>>
    \/ ClearAll /\ UNCHANGED <<segVars, pipeVars, histVars, waitVars, talkVars, discVars, lockVars, uploadVars, reqVars>>

SessionSpec == SessInit /\ [][SessNext]_vars

SegmenterInit == SegInit /\ SessStart /\ PipeIdle /\ HistIdle /\ WaitIdle /\ TalkIdle /\ Connected /\ LockIdle /\ UploadIdle /\ ReqIdle

SegmenterNext ==
    \/ SegOnDelta /\ UNCHANGED <<sessVars, pipeVars, histVars, waitVars, talkVars, discVars, lockVars, uploadVars, reqVars>>
    \/ SegOnEnd /\ UNCHANGED <<sessVars, pipeVars, histVars, waitVars, talkVars, discVars, lockVars, uploadVars, reqVars>>
    \/ SegOnError /\ UNCHANGED <<sessVars, pipeVars, histVars, waitVars, talkVars, discVars, lockVars, uploadVars, reqVars>>

SegmenterSpec == SegmenterInit /\ [][SegmenterNext]_vars

PipelineInit == PipeInit /\ SessStart /\ SegIdle /\ HistIdle /\ WaitIdle /\ TalkIdle /\ Connected /\ LockIdle /\ UploadIdle /\ ReqIdle

PipelineNext ==
    \/ SseStart /\ UNCHANGED <<sessVars, segVars, histVars, waitVars, talkVars, discVars, lockVars, uploadVars, reqVars>>
    \/ LlmSentence /\ UNCHANGED <<sessVars, segVars, histVars, waitVars, talkVars, discVars, lockVars, uploadVars, reqVars>>
    \/ LlmDone /\ UNCHANGED <<sessVars, segVars, histVars, waitVars, talkVars, discVars, lockVars, uploadVars, reqVars>>
    \/ LlmError /\ UNCHANGED <<sessVars, segVars, histVars, waitVars, talkVars, discVars, lockVars, uploadVars, reqVars>>
    \/ WorkerGet /\ UNCHANGED <<sessVars, segVars, histVars, waitVars, talkVars, discVars, lockVars, uploadVars, reqVars>>
    \/ WorkerAudio /\ UNCHANGED <<sessVars, segVars, histVars, waitVars, talkVars, discVars, lockVars, uploadVars, reqVars>>
    \/ \E outcome \in {"done", "failed"} :
           WorkerSentenceEnd(outcome) /\ UNCHANGED <<sessVars, segVars, histVars, waitVars, talkVars, discVars, lockVars, uploadVars, reqVars>>
    \/ SseGet /\ UNCHANGED <<sessVars, segVars, histVars, waitVars, talkVars, discVars, lockVars, uploadVars, reqVars>>
    \/ SseRegister /\ UNCHANGED <<sessVars, segVars, histVars, waitVars, talkVars, discVars, lockVars, uploadVars, reqVars>>
    \/ SseResume /\ UNCHANGED <<sessVars, segVars, histVars, waitVars, talkVars, discVars, lockVars, uploadVars, reqVars>>
    \/ SseJoin /\ UNCHANGED <<sessVars, segVars, histVars, waitVars, talkVars, discVars, lockVars, uploadVars, reqVars>>

PipelineSpec == PipelineInit /\ [][PipelineNext]_vars

HistoryInit == HistStart /\ SessStart /\ SegIdle /\ PipeIdle /\ WaitIdle /\ TalkIdle /\ Connected /\ LockIdle /\ UploadIdle /\ ReqIdle

HistoryNext ==
    \/ \E n \in Npcs, t \in MessageTexts :
           AddUserMessage(n, t) /\ UNCHANGED <<sessVars, segVars, pipeVars, waitVars, talkVars, discVars, lockVars, uploadVars, reqVars>>
    \/ \E n \in Npcs, t \in MessageTexts :
           AddAssistantMessage(n, t) /\ UNCHANGED <<sessVars, segVars, pipeVars, waitVars, talkVars, discVars, lockVars, uploadVars, reqVars>>
    \/ \E n \in Npcs : GetMessages(n) /\ UNCHANGED <<sessVars, segVars, pipeVars, waitVars, talkVars, discVars, lockVars, uploadVars, reqVars>>
    \/ \E n \in Npcs : GetConversation(n) /\ UNCHANGED <<sessVars, segVars, pipeVars, waitVars, talkVars, discVars, lockVars, uploadVars, reqVars>>
    \/ GetAllConversations /\ UNCHANGED <<sessVars, segVars, pipeVars, waitVars, talkVars, discVars, lockVars, uploadVars, reqVars>>
    \/ \E x \in ExcludeChoices :
           GetSummaryForContext(x) /\ UNCHANGED <<sessVars, segVars, pipeVars, waitVars, talkVars, discVars, lockVars, uploadVars, reqVars>>
    \/ \E n \in Npcs : CallerAppend(n) /\ UNCHANGED <<sessVars, segVars, pipeVars, waitVars, talkVars, discVars, lockVars, uploadVars, reqVars>>
    \/ \E n \in Npcs : CallerRemove(n) /\ UNCHANGED <<sessVars, segVars, pipeVars, waitVars, talkVars, discVars, lockVars, uploadVars, reqVars>>
    \/ \E n \in Npcs : CallerReverse(n) /\ UNCHANGED <<sessVars, segVars, pipeVars, waitVars, talkVars, discVars, lockVars, uploadVars, reqVars>>
    \/ \E n \in Npcs, i \in 1 .. MaxMessages, f \in {"role", "content"} :
           CallerSetField(n, i, f) /\ UNCHANGED <<sessVars, segVars, pipeVars, waitVars, talkVars, discVars, lockVars, uploadVars, reqVars>>
    \/ \E n \in Npcs : ClearConversation(n) /\ UNCHANGED <<sessVars, segVars, pipeVars, waitVars, talkVars, discVars, lockVars, uploadVars, reqVars>>
    \/ HistClearAll /\ UNCHANGED <<sessVars, segVars, pipeVars, waitVars, talkVars, discVars, lockVars, uploadVars, reqVars>>

HistorySpec == HistoryInit /\ [][HistoryNext]_vars

WaitInit == WaitStart0 /\ SessStart /\ SegIdle /\ PipeIdle /\ HistIdle /\ TalkIdle /\ Connected /\ LockIdle /\ UploadIdle /\ ReqIdle

WaitNext ==
    \/ \E i \in Indices, c \in ChunkResults :
           WaitUpload(i, c.text, c.stt_ms) /\ UNCHANGED <<segVars, pipeVars, histVars, talkVars, discVars, lockVars, uploadVars, reqVars>>
    \/ WaitBegin /\ UNCHANGED <<segVars, pipeVars, histVars, talkVars, discVars, lockVars, uploadVars, reqVars>>
    \/ WaitLoop /\ UNCHANGED <<segVars, pipeVars, histVars, talkVars, discVars, lockVars, uploadVars, reqVars>>
    \/ WaitSleep /\ UNCHANGED <<segVars, pipeVars, histVars, talkVars, discVars, lockVars, uploadVars, reqVars>>
    \/ WaitFinalize /\ UNCHANGED <<segVars, pipeVars, histVars, talkVars, discVars, lockVars, uploadVars, reqVars>>

WaitSpec == WaitInit /\ [][WaitNext]_vars

TalkInit == TalkIdle /\ SessStart /\ SegIdle /\ PipeIdle /\ HistIdle /\ WaitIdle /\ Connected /\ LockIdle /\ UploadIdle /\ ReqIdle

TalkNext ==
    \/ \E i \in Indices \cap {nAdds} :
           TalkUpload(WaitedSession, i, UploadedText, 10) /\ UNCHANGED <<segVars, pipeVars, waitVars, discVars, lockVars, uploadVars, reqVars>>
    \/ \E e \in Endpoints, n \in Npcs \cup {UnknownNpc},
          s \in {None, Some(WaitedSession)}, a \in AudioChoices :
           TalkRequest(e, n, s, a) /\ UNCHANGED <<segVars, pipeVars, waitVars, discVars, lockVars, uploadVars, reqVars>>
    \/ TalkStored /\ UNCHANGED <<segVars, pipeVars, waitVars, discVars, lockVars, uploadVars, reqVars>>
    \/ TalkNoAudio /\ UNCHANGED <<segVars, pipeVars, waitVars, discVars, lockVars, uploadVars, reqVars>>
    \/ \E t \in SttTexts : TalkTranscribed(t) /\ UNCHANGED <<segVars, pipeVars, waitVars, discVars, lockVars, uploadVars, reqVars>>
    \/ TalkTranscribeFailed /\ UNCHANGED <<segVars, pipeVars, waitVars, discVars, lockVars, uploadVars, reqVars>>
    \/ TalkValidate /\ UNCHANGED <<segVars, pipeVars, waitVars, discVars, lockVars, uploadVars, reqVars>>
    \/ TalkGenerated /\ UNCHANGED <<segVars, pipeVars, waitVars, discVars, lockVars, uploadVars, reqVars>>
    \/ TalkGenerateFailed /\ UNCHANGED <<segVars, pipeVars, waitVars, discVars, lockVars, uploadVars, reqVars>>
    \/ \E st \in {200, 502} : TalkSynthesized(st) /\ UNCHANGED <<segVars, pipeVars, waitVars, discVars, lockVars, uploadVars, reqVars>>
    \/ TalkStreamed /\ UNCHANGED <<segVars, pipeVars, waitVars, discVars, lockVars, uploadVars, reqVars>>
    \/ \E b \in BOOLEAN : TalkStreamFailed(b) /\ UNCHANGED <<segVars, pipeVars, waitVars, discVars, lockVars, uploadVars, reqVars>>

TalkSpec == TalkInit /\ [][TalkNext]_vars

DisconnectInit == PipeInit /\ Connected /\ SessStart /\ SegIdle /\ HistIdle /\ WaitIdle /\ TalkIdle /\ LockIdle /\ UploadIdle /\ ReqIdle

DisconnectNext ==
    \/ PipelineNext
    \/ SseDisconnect /\ UNCHANGED <<sessVars, segVars, histVars, waitVars, talkVars, lockVars, uploadVars, reqVars>>

DisconnectSpec == DisconnectInit /\ [][DisconnectNext]_vars

LockInit == LockIdle /\ SessStart /\ SegIdle /\ PipeIdle /\ HistIdle /\ WaitIdle /\ TalkIdle /\ Connected /\ UploadIdle /\ ReqIdle

LockNext ==
    \/ \E t \in Threads, i \in Indices :
           LockCall(t, "add", i) /\ UNCHANGED <<segVars, pipeVars, histVars, waitVars, talkVars, discVars, uploadVars, reqVars>>
    \/ \E t \in Threads : LockCall(t, "finalize", 0) /\ UNCHANGED <<segVars, pipeVars, histVars, waitVars, talkVars, discVars, uploadVars, reqVars>>
    \/ \E t \in Threads : LockAcquire(t) /\ UNCHANGED <<segVars, pipeVars, histVars, waitVars, talkVars, discVars, uploadVars, reqVars>>
    \/ \E t \in Threads : AddCheck(t) /\ UNCHANGED <<segVars, pipeVars, histVars, waitVars, talkVars, discVars, uploadVars, reqVars>>
    \/ \E t \in Threads : AddCreate(t) /\ UNCHANGED <<segVars, pipeVars, histVars, waitVars, talkVars, discVars, uploadVars, reqVars>>
    \/ \E t \in Threads : AddAssign(t) /\ UNCHANGED <<segVars, pipeVars, histVars, waitVars, talkVars, discVars, uploadVars, reqVars>>
    \/ \E t \in Threads : FinPop(t) /\ UNCHANGED <<segVars, pipeVars, histVars, waitVars, talkVars, discVars, uploadVars, reqVars>>
    \/ \E t \in Threads : LockRelease(t) /\ UNCHANGED <<segVars, pipeVars, histVars, waitVars, talkVars, discVars, uploadVars, reqVars>>

LockSpec == LockInit /\ [][LockNext]_vars

UploadInit == UploadIdle /\ SessStart /\ SegIdle /\ PipeIdle /\ HistIdle /\ WaitIdle /\ TalkIdle /\ Connected /\ LockIdle /\ ReqIdle

UploadNext ==
    \/ \E i \in Indices, a \in UploadAudios :
           UploadChunk(UploadSession, i, a) /\ UNCHANGED <<segVars, pipeVars, histVars, waitVars, talkVars, discVars, lockVars, reqVars>>
    \/ FinalizeSession(UploadSession) /\ UNCHANGED upload /\ UNCHANGED <<segVars, pipeVars, histVars, waitVars, talkVars, discVars, lockVars, reqVars>>

UploadSpec == UploadInit /\ [][UploadNext]_vars

RequestsInit == ReqIdle /\ HistStart /\ SessStart /\ SegIdle /\ PipeIdle /\ WaitIdle /\ TalkIdle /\ Connected /\ LockIdle /\ UploadIdle

RequestsNext ==
    \/ \E r \in Requests, n \in Npcs :
           ReqTranscribed(r, n) /\ UNCHANGED <<sessVars, segVars, pipeVars, waitVars, talkVars, discVars, lockVars, uploadVars>>
    \/ \E r \in Requests : ReqAppendAndRead(r) /\ UNCHANGED <<sessVars, segVars, pipeVars, waitVars, talkVars, discVars, lockVars, uploadVars>>
    \/ \E r \in Requests : ReqReplied(r) /\ UNCHANGED <<sessVars, segVars, pipeVars, waitVars, talkVars, discVars, lockVars, uploadVars>>
    \/ \E r \in Requests : ReqFailed(r) /\ UNCHANGED <<sessVars, segVars, pipeVars, waitVars, talkVars, discVars, lockVars, uploadVars>>
    \/ \E n \in Npcs : ReqClear(n) /\ UNCHANGED <<sessVars, segVars, pipeVars, waitVars, talkVars, discVars, lockVars, uploadVars>>

RequestsSpec == RequestsInit /\ [][RequestsNext]_vars

(***************************************************************************)
(* Claims about the utterance chunk store.                                 *)
(***************************************************************************)
\* The uploads are one add_chunk_text call per index of 0..n, in any order.
OncePerIndex(uploads) ==
    /\ uploads # <<>>
    /\ {uploads[k].index : k \in 1 .. Len(uploads)} = 0 .. (Len(uploads) - 1)

\* The upload that carried index i.
UploadOf(uploads, i) ==
    uploads[CHOOSE k \in 1 .. Len(uploads) : uploads[k].index = i]

\* C1: when add_chunk_text was called once per index of 0..n, in any order,
\* finalize_session returns the texts of 0..n in ascending index order joined
\* by single spaces and trimmed, with the stt_ms stored for index n.
C1_FinalizeOrdersByIndex ==
    \A s \in Sessions :
        (ret[s].called /\ OncePerIndex(ret[s].uploads)) =>
            LET u == ret[s].uploads
                n == Len(u) - 1
            IN  /\ ret[s].text =
                       Strip(JoinSpace([i \in 1 .. n + 1 |-> UploadOf(u, i - 1).text]))
                /\ ret[s].stt = Some(UploadOf(u, n).stt_ms)

\* C1 witness: all of 0..MaxIndex uploaded, highest index first, then finalized.
C1_Witness ==
    \E s \in Sessions :
        /\ ret[s].called
        /\ OncePerIndex(ret[s].uploads)
        /\ Len(ret[s].uploads) = MaxIndex + 1
        /\ ret[s].uploads[1].index = MaxIndex
        /\ ret[s].uploads[1].text # ret[s].uploads[2].text

\* C2: a second finalize_session with no add_chunk_text in between returns
\* empty text and None, and after a finalize_session the session has no
\* buffered indices.
C2_ConsumeOnce ==
    \A s \in Sessions :
        /\ finCount[s] >= 1 => GetSessionIndices(s) = <<>>
        /\ finCount[s] >= 2 => (ret[s].text = <<>> /\ ret[s].stt = None)

\* C2 witness: a finalize_session that returned text, then a second one.
C2_Witness ==
    \E s \in Sessions : finCount[s] = 2 /\ ret[s].prev_text # <<>>

(***************************************************************************)
(* Claims about the streaming sentence segmenter.                          *)
(***************************************************************************)
\* The run of the segmenter on the whole text fed as one single delta.
OneShot(t) == SegFlush(IF t = <<>> THEN SegStart ELSE SegDelta(SegStart, t))

\* C9: however the text is cut into deltas, the run emits as many sentence
\* units, and its done event carries the same full_text, as the run that is
\* fed the whole text as one delta.
C9_DeltaBoundaryIndependence ==
    segPc = "done" =>
        /\ Len(seg.units) = Len(OneShot(llm_text).units)
        /\ done_event.full_text = DoneEvent(OneShot(llm_text)).full_text

\* The unit count alone is independent of the delta boundaries.
C9_SameUnitCount ==
    segPc = "done" => Len(seg.units) = Len(OneShot(llm_text).units)

\* s without its whitespace characters
RECURSIVE NonSpace(_)
NonSpace(s) ==
    IF s = <<>> THEN <<>>
    ELSE IF IsSpace(Head(s)) THEN NonSpace(Tail(s))
         ELSE <<Head(s)>> \o NonSpace(Tail(s))

UnitTexts(units) == Flatten([i \in 1 .. Len(units) |-> units[i].text])

\* The delivered part of the stream that lies before the open delimiter.
BeforeDelimiter ==
    LET got == SubSeq(llm_text, 1, pos)
    IN  IF Contains(got, NovoiceOpen)
        THEN SubSeq(got, 1, IndexOf(got, NovoiceOpen) - 1)
        ELSE got

\* C10: once the open delimiter is detected the segmenter stays in the
\* metadata state and emits no further unit; the emitted units are made of
\* the text before the delimiter only, and none contains the delimiter.
C10_MetadataSwallowsRest ==
    /\ [](/\ \A i \in 1 .. Len(seg.units) : ~Contains(seg.units[i].text, NovoiceOpen)
          /\ seg.in_novoice =>
                 NonSpace(UnitTexts(seg.units)) = NonSpace(BeforeDelimiter))
    /\ [][seg.in_novoice => (seg'.in_novoice /\ seg'.units = seg.units)]_vars

\* C10 witness: a unit was emitted, the delimiter was detected, and text that
\* followed the delimiter was delivered and the stream has ended.
C10_Witness ==
    /\ segPc = "done"
    /\ seg.in_novoice
    /\ seg.units # <<>>
    /\ Len(seg.novoice_buffer) > Len(NovoiceOpen)

(***************************************************************************)
(* Claims about the streaming pipeline (PipelineSpec).                     *)
(***************************************************************************)
\* The audio events delivered so far, in order.
AudioEvents == SelectSeq(events, LAMBDA e : e.type = "audio")

\* The audio events the worker has forwarded: delivered, then still queued.
Forwarded == SelectSeq(events \o audio_q, LAMBDA e : e.type = "audio")

\* The <<sentence, chunk>> payloads of a sequence of audio events.
Payloads(evs) == [j \in 1 .. Len(evs) |-> evs[j].audio]

\* The payloads of p that belong to sentence i.
OfSentence(p, i) == SelectSeq(p, LAMBDA x : x[1] = i)

\* The chunks 1 .. n of sentence i, in the order synthesis yields them.
ChunksOf(i, n) == [k \in 1 .. n |-> <<i, k>>]

\* Sentences in increasing order, each one's chunks 1, 2, ... in order.
InPlaybackOrder(p) ==
    \A j \in 1 .. Len(p) :
        IF j = 1
        THEN p[j][2] = 1
        ELSE \/ p[j][1] = p[j - 1][1] /\ p[j][2] = p[j - 1][2] + 1
             \/ p[j][1] > p[j - 1][1] /\ p[j][2] = 1

\* C3: the chunk_index values of the audio events delivered to the caller are
\* 1, 2, ..., k in that order: starting at 1, no gaps, not reset per sentence,
\* whatever the number of sentences and of chunks per sentence (zero included).
C3_GlobalChunkIndices ==
    /\ \A j \in 1 .. Len(AudioEvents) : AudioEvents[j].chunk_index = j
    /\ global_chunk_index = Len(AudioEvents)

\* A finished run of three sentences: two chunks, then none, then at least one.
C3_Witness ==
    /\ ssePc = "finished"
    /\ Len(synth) = 3
    /\ synth[1].yielded = 2
    /\ synth[2].yielded = 0
    /\ synth[3].yielded >= 1
    /\ Len(AudioEvents) >= 3

\* C4: audio events reach the caller in playback order: the chunks of sentence
\* i before those of sentence j when i < j, the chunks of one sentence in the
\* order synthesis yielded them; the worker takes the sentences in the order
\* they were emitted, and takes the next one only when synthesis of the
\* current one has ended and everything it yielded has been forwarded.
C4_PlaybackOrder ==
    /\ InPlaybackOrder(Payloads(AudioEvents))
    /\ InPlaybackOrder(Payloads(Forwarded))
    /\ \A i \in 1 .. Len(synth) :
          /\ synth[i].sentence = i
          /\ i < Len(synth) => synth[i].outcome # "running"
          /\ OfSentence(Payloads(Forwarded), i) = ChunksOf(i, synth[i].yielded)

\* Chunks of two sentences are queued at once behind a delivered one, while
\* the worker is synthesising.
C4_Witness ==
    /\ ttsPc = "synth"
    /\ Len(AudioEvents) >= 1
    /\ \E a, b \in 1 .. Len(audio_q) :
          /\ audio_q[a].type = "audio"
          /\ audio_q[b].type = "audio"
          /\ audio_q[a].audio[1] # audio_q[b].audio[1]

\* C5: no interleaving of llm_producer, tts_worker and the output loop leaves
\* the run unable to go on before the done event has been delivered.
C5_NeverStuck == ssePc = "finished" \/ ENABLED PipelineNext

\* C6: when the generation stream failed, the done event delivered to the
\* caller carries an error indicator.
C6_FailureCarriesError ==
    (ssePc = "finished" /\ "error" \in DOMAIN llm_done_info)
        => "error" \in DOMAIN events[Len(events)]

\* C7: when synthesis failed for some sentence, a finished run has delivered
\* every chunk of every other sentence, in sentence order and with gap-free
\* chunk indices, and, generation having succeeded, the done event's reply text
\* is the full generated text, the failed sentence included.
C7_SynthesisFailureIsolated ==
    (ssePc = "finished" /\ \E i \in 1 .. Len(synth) : synth[i].outcome = "failed")
        => /\ Len(synth) = llm_yielded
           /\ \A i \in 1 .. Len(synth) :
                 /\ synth[i].sentence = i
                 /\ synth[i].outcome = "done" =>
                        OfSentence(Payloads(AudioEvents), i)
                            = ChunksOf(i, synth[i].yielded)
           /\ InPlaybackOrder(Payloads(AudioEvents))
           /\ \A j \in 1 .. Len(AudioEvents) : AudioEvents[j].chunk_index = j
           /\ "full_text" \in DOMAIN llm_done_info =>
                  events[Len(events)].npc_text = FullText(llm_yielded)

\* A finished run of three sentences whose second sentence alone failed.
C7_Witness ==
    /\ ssePc = "finished"
    /\ "full_text" \in DOMAIN llm_done_info
    /\ Len(synth) = 3
    /\ synth[1].outcome = "done" /\ synth[1].yielded >= 1
    /\ synth[2].outcome = "failed"
    /\ synth[3].outcome = "done" /\ synth[3].yielded >= 1
    /\ events[Len(events)].npc_text = <<1, 2, 3>>

\* The shape of the events delivered so far.
StreamShape ==
    /\ ssePc # "start" => events # <<>>
    /\ events # <<>> => events[1].type = "metadata"
    /\ \A j \in 2 .. Len(events) : events[j].type \in {"audio", "done"}
    /\ \A j \in 1 .. Len(events) - 1 : events[j].type # "done"
    /\ ssePc = "finished" <=> (events # <<>> /\ events[Len(events)].type = "done")
    /\ llmPc = "idle" /\ ttsPc = "idle" => AudioEvents = <<>>

\* C8: the event stream is one metadata event, first and before any audio
\* event, then audio events, then one done event, after which nothing is
\* emitted; an emitted event is never taken back.
C8_StreamShape ==
    /\ []StreamShape
    /\ [][/\ Len(events') >= Len(events)
          /\ SubSeq(events', 1, Len(events)) = events
          /\ ssePc = "finished" => events' = events]_vars

\* A finished run that delivered metadata, two audio events or more, and done.
C8_Witness ==
    /\ ssePc = "finished"
    /\ Len(events) >= 4
    /\ events[1].type = "metadata"
    /\ events[2].type = "audio"
    /\ events[Len(events)].type = "done"

(***************************************************************************)
(* Claims about the metadata region and the sentence events (SegmenterSpec).*)
(***************************************************************************)
\* The texts of the emitted sentence events, in emission order.
UnitSeq == [i \in 1 .. Len(seg.units) |-> seg.units[i].text]

\* "price:10|mood:happy" between the delimiters.
ExampleRegion == NovoiceOpen \o <<"p", "r", "i", "c", "e", ":", "1", "0", "|", "m", "o", "o", "d", ":", "h", "a", "p", "p", "y">> \o NovoiceClose

\* C11: for a reply of the shape "S1. S2!<novoice>price:10|mood:happy</novoice>"
\* (no whitespace before the delimiter) every sentence before the delimiter is
\* emitted as its own unit, left to right, the one ended only by the delimiter
\* included; the done event carries the mapping price -> integer 10,
\* mood -> text "happy", and no unit carries any of the region.
C11_SentencesThenMetadata ==
    segPc = "done" =>
        /\ llm_text = <<"a", ".", " ", "b", "!">> \o ExampleRegion =>
              /\ UnitSeq = <<<<"a", ".">>, <<"b", "!">>>>
              /\ done_event.novoice =
                     (<<"p", "r", "i", "c", "e">> :> [kind |-> "int", int |-> 10])
                     @@ (<<"m", "o", "o", "d">> :> [kind |-> "str", text |-> <<"h", "a", "p", "p", "y">>])
        /\ llm_text = <<"a", ".">> \o ExampleRegion =>
              /\ UnitSeq = <<<<"a", ".">>>>
              /\ done_event.novoice =
                     (<<"p", "r", "i", "c", "e">> :> [kind |-> "int", int |-> 10])
                     @@ (<<"m", "o", "o", "d">> :> [kind |-> "str", text |-> <<"h", "a", "p", "p", "y">>])
        /\ \A i \in 1 .. Len(UnitSeq) :
              \A c \in {"<", ":", "|"} : ~Contains(UnitSeq[i], <<c>>)

\* The two-sentence example has run to its done event.
C11_Witness ==
    /\ segPc = "done"
    /\ llm_text = <<"a", ".", " ", "b", "!">> \o ExampleRegion
    /\ Len(seg.units) = 2
    /\ DOMAIN done_event.novoice = {<<"p", "r", "i", "c", "e">>, <<"m", "o", "o", "d">>}

\* C12: the index fields of the emitted sentence events are 0, 1, 2, ... in
\* emission order, whichever path emitted them (normal split, flush before
\* the delimiter, final flush), and the counter is the number emitted.
C12_SentenceIndices ==
    /\ \A i \in 1 .. Len(seg.units) : seg.units[i].index = i - 1
    /\ seg.sentence_index = Len(seg.units)

\* A run that emitted one unit by a normal split, one by the flush before the
\* delimiter, and has ended.
C12_Witness ==
    /\ segPc = "done"
    /\ seg.in_novoice
    /\ Len(seg.units) = 2
    /\ seg.units[2].index = 1

\* C13: a generation stream that ends without a provider failure is
\* terminated by a done event, also when no sentence unit was emitted.
C13_EndsWithDoneEvent ==
    (segPc # "idle" /\ segPc # "streaming" /\ segPc # "failed")
        => done_event.type = "done"

(***************************************************************************)
(* Claims about the reply stored by the pipeline (PipelineSpec).           *)
(***************************************************************************)
\* C14: a finished run has appended the full generated reply text to the
\* character's history exactly once, and nothing exactly when the run flushed
\* no sentence unit (no text was sent to synthesis).
C14_ReplyStoredOnce ==
    ssePc = "finished" =>
        IF llm_yielded = 0
        THEN history = <<>>
        ELSE history = <<[role |-> "assistant", content |-> FullText(llm_yielded)]>>

\* What does hold: the reply is stored, once, exactly when the generation
\* stream delivered its done item, and never before the run has finished.
C14_StoredIffGenerationDone ==
    history = IF ssePc = "finished" /\ "full_text" \in DOMAIN llm_done_info
              THEN <<[role |-> "assistant", content |-> FullText(llm_yielded)]>>
              ELSE <<>>

(***************************************************************************)
(* Claims about the conversation history (HistorySpec).                    *)
(***************************************************************************)
\* What the reads of the store return for a character: whether it has a
\* record, and its messages.
ViewOf(convs, h, n) ==
    [exists |-> HasConversation(convs, n), messages |-> Messages(convs, h, n)]

StoreView == [n \in Npcs |-> ViewOf(conversations, heap, n)]

\* C15: no change a caller makes to a value a read returned (to the sequence
\* or to a message element) changes what a later read of the store returns.
C15_ReadsAreSnapshots ==
    [][nMutations' # nMutations => StoreView' = StoreView]_vars

\* What does hold: changes to the returned sequence itself (append, remove,
\* reorder) leave the store as it was.
C15_ListChangesIsolated ==
    [][(nMutations' # nMutations /\ heap' = heap) => StoreView' = StoreView]_vars

\* C16: a call of add_user_message / add_assistant_message extends the named
\* character's message sequence by exactly one message with the given role
\* and text, at the end, and leaves every other character's sequence as it
\* was; so the sequence read before the call is a prefix of the one read after.
C16_AppendOnly ==
    [][\A role \in {"user", "assistant"}, n \in Npcs, t \in MessageTexts :
          AddMessage(role, n, t) =>
              /\ Messages(conversations', heap', n)
                     = Append(Messages(conversations, heap, n),
                              [role |-> role, content |-> t])
              /\ \A m \in Npcs \ {n} :
                     Messages(conversations', heap', m)
                         = Messages(conversations, heap, m)]_vars

\* A character's log holds a user message followed by an assistant message.
C16_Witness ==
    \E n \in Npcs :
        /\ Len(Messages(conversations, heap, n)) = 2
        /\ Messages(conversations, heap, n)[1].role = "user"
        /\ Messages(conversations, heap, n)[2].role = "assistant"

\* C17: clear_conversation(e) returns true exactly when e had a record; after
\* it e reads as empty and every other character reads as before; a false
\* return leaves the whole store as it was and creates no record.
C17_ClearConversation ==
    [][\A n \in Npcs :
          ClearConversation(n) =>
              /\ lastOp'.result = HasConversation(conversations, n)
              /\ Messages(conversations', heap', n) = <<>>
              /\ HasConversation(conversations', n) = HasConversation(conversations, n)
              /\ \A m \in Npcs \ {n} :
                     ViewOf(conversations', heap', m) = ViewOf(conversations, heap, m)
              /\ ~lastOp'.result => conversations' = conversations /\ heap' = heap]_vars

\* A clear that returned true: the cleared character keeps an empty record
\* next to another character's messages.
C17_Witness ==
    /\ lastOp = [op |-> "clear_conversation", result |-> TRUE]
    /\ \E n, m \in Npcs :
          /\ heap # <<>>
          /\ HasConversation(conversations, n)
          /\ Messages(conversations, heap, n) = <<>>
          /\ Messages(conversations, heap, m) # <<>>

\* The lines of a summary after its header.
SummaryBody(summary) == IF summary = <<>> THEN <<>> ELSE Tail(summary)

\* C18: get_summary_for_context(x) returns the empty string exactly when no
\* character other than x has a message; otherwise it holds exactly one line
\* for each character other than x that has messages, with that character's
\* message count and the first 80 characters at most of its last message,
\* and no other line.
C18_SummaryForContext ==
    held.kind = "summary" =>
        LET others == {n \in Npcs \ {held.exclude} :
                          Messages(conversations, heap, n) # <<>>}
            lines == SummaryBody(held.summary)
        IN  /\ held.summary = <<>> <=> others = {}
            /\ Len(lines) = Cardinality(others)
            /\ \A n \in others :
                  \E i \in 1 .. Len(lines) :
                      LET msgs == Messages(conversations, heap, n)
                          last == msgs[Len(msgs)].content
                      IN  /\ lines[i].npc_id = n
                          /\ lines[i].msg_count = Len(msgs)
                          /\ Len(lines[i].preview) <= 80
                          /\ Len(lines[i].preview) = 80 \/ lines[i].preview = last
                          /\ lines[i].preview = SubSeq(last, 1, Len(lines[i].preview))

\* A summary that leaves out a character with messages and shows another one's
\* last message cut to 80 characters.
C18_Witness ==
    /\ held.kind = "summary"
    /\ held.exclude \in Npcs
    /\ Messages(conversations, heap, held.exclude) # <<>>
    /\ Len(held.summary) = 2
    /\ Len(held.summary[2].preview) = 80
    /\ \E n \in Npcs :
          /\ held.summary[2].npc_id = n
          /\ Len(Messages(conversations, heap, n)[1].content) > 80

(***************************************************************************)
(* Claims about the wait for missing fragments (WaitSpec).                 *)
(***************************************************************************)
\* The uploads of the waited session that the wait and the finalize saw.
WaitedUploads ==
    IF wait.pc = "finalized" THEN ret[WaitedSession].uploads
    ELSE calls[WaitedSession]

\* Each index was uploaded once, and an index between two of them is absent.
HoldsGap(uploads) ==
    LET present == {uploads[k].index : k \in 1 .. Len(uploads)}
    IN  /\ Cardinality(present) = Len(uploads)
        /\ \E a, b \in present : \E i \in (a + 1) .. (b - 1) : i \notin present

\* C19: with a gap in the session and no fragment arriving during the wait,
\* _wait_for_missing_chunks ends only by its timeout, when the time since its
\* start is the timeout at least; finalize_session then returns the texts of
\* exactly the present indices in ascending order.
C19_WaitTimesOutOnGap ==
    (wait.pc \in {"returned", "finalized"} /\ ~wait.arrived /\ HoldsGap(WaitedUploads))
        => /\ wait.how = "timeout"
           /\ wait.elapsed >= 2000
           /\ wait.pc = "finalized" =>
                  LET u == WaitedUploads
                      sorted == SortedSet({u[k].index : k \in 1 .. Len(u)})
                  IN  ret[WaitedSession].text =
                          Strip(JoinSpace([k \in 1 .. Len(sorted) |->
                                              UploadOf(u, sorted[k]).text]))

\* Indices 0 and 2 were uploaded, 2 first, nothing arrived during the wait,
\* and the session has been finalized.
C19_Witness ==
    /\ wait.pc = "finalized"
    /\ ~wait.arrived
    /\ Len(ret[WaitedSession].uploads) = 2
    /\ ret[WaitedSession].uploads[1].index = 2
    /\ ret[WaitedSession].uploads[2].index = 0
    /\ ret[WaitedSession].text # <<>>

(***************************************************************************)
(* Claims about the /talk and /talk_stream handlers.                       *)
(***************************************************************************)
\* The request was answered with a validation rejection: 404 for an unknown
\* character id, 400 for an empty resulting transcript.
ValidationRejected ==
    /\ talk.pc = "responded"
    /\ talk.status \in {404, 400}

\* C20: when /talk or /talk_stream rejects a request for a validation
\* reason (unknown character id, or empty resulting transcript), no message
\* was appended to any conversation history and neither generation nor
\* synthesis was invoked for that request.
C20_RejectionBeforePipeline ==
    ValidationRejected =>
        /\ conversations = talk.conversations0
        /\ heap = talk.heap0
        /\ ~talk.generation
        /\ ~talk.synthesis

\* An empty transcript is refused after the stored fragments were consumed
\* and the final audio was recognized, with a history left by an earlier
\* request.
C20_Witness ==
    /\ ValidationRejected
    /\ talk.status = 400
    /\ talk.finalized
    /\ talk.stt
    /\ heap # <<>>

(***************************************************************************)
(* Claims about the two stages of the streaming pipeline (PipelineSpec).   *)
(***************************************************************************)
\* The generation stream raised and llm_producer caught it.
StreamFailed == "error" \in DOMAIN llm_done_info

\* Everything put on sentence_q so far, in the order it was put: what the
\* worker took (it stops at the first None), then what is still queued.
SentencePuts ==
    [i \in 1 .. Len(synth) |-> SentenceItem(synth[i].sentence)]
        \o (IF ttsPc = "exit" THEN <<QNone>> ELSE <<>>)
        \o sentence_q

\* Everything put on audio_q so far, in the order it was put: what the output
\* loop took (it stops at the first None), then what is still queued.
AudioPuts ==
    AudioEvents
        \o (IF ssePc \in {"join", "finished"} THEN <<QNone>> ELSE <<>>)
        \o audio_q

\* The number of sentinels in a sequence of queue items.
Sentinels(items) == Cardinality({j \in 1 .. Len(items) : items[j] = QNone})

\* A step of tts_worker.
WorkerStep ==
    WorkerGet \/ WorkerAudio \/ \E outcome \in {"done", "failed"} : WorkerSentenceEnd(outcome)

\* C21: when the generation stream fails after k sentences, llm_producer has
\* ended and has put the k sentences and then the sentinel on sentence_q;
\* tts_worker is never blocked before its end, and at its end it has taken
\* exactly those k sentences in order, finished each, and put its own
\* sentinel last on audio_q; the caller's stream, once finished, ends with the
\* done event.
C21_FailureDrains ==
    StreamFailed =>
        /\ llmPc = "finished"
        /\ SentencePuts = [i \in 1 .. llm_yielded |-> SentenceItem(i)] \o <<QNone>>
        /\ ttsPc # "exit" => ENABLED WorkerStep
        /\ ttsPc = "exit" =>
              /\ Len(synth) = llm_yielded
              /\ \A i \in 1 .. Len(synth) :
                    synth[i].sentence = i /\ synth[i].outcome # "running"
              /\ sentence_q = <<>>
              /\ AudioPuts # <<>> /\ AudioPuts[Len(AudioPuts)] = QNone
        /\ ssePc = "finished" => events[Len(events)].type = "done"

\* Generation failed after two sentences; the worker synthesized both and
\* ended, and the caller's stream finished.
C21_Witness ==
    /\ StreamFailed
    /\ llm_yielded = 2
    /\ ttsPc = "exit"
    /\ Len(synth) = 2
    /\ synth[1].yielded >= 1
    /\ ssePc = "finished"

\* C22: at most one sentinel is ever put on sentence_q, it is put exactly when
\* generation has ended (done item or failure), and nothing is put after it;
\* at most one sentinel is ever put on audio_q, after every audio chunk, exactly
\* when the worker has ended, which is only after it took the sentence sentinel.
C22_OneSentinelLast ==
    /\ Sentinels(SentencePuts) = (IF llmPc = "finished" THEN 1 ELSE 0)
    /\ Sentinels(SentencePuts) = 1 => SentencePuts[Len(SentencePuts)] = QNone
    /\ Sentinels(AudioPuts) = (IF ttsPc = "exit" THEN 1 ELSE 0)
    /\ Sentinels(AudioPuts) = 1 =>
          /\ AudioPuts[Len(AudioPuts)] = QNone
          /\ Sentinels(sentence_q) = 0
          /\ Sentinels(SentencePuts) = 1

\* Both sentinels were put and taken in a finished run that ended with the
\* done item after two sentences with audio.
C22_Witness ==
    /\ ssePc = "finished"
    /\ ~StreamFailed
    /\ llm_yielded = 2
    /\ Len(AudioEvents) >= 2
    /\ Sentinels(SentencePuts) = 1
    /\ Sentinels(AudioPuts) = 1

\* C23: a sentence whose synthesis failed has contributed no audio chunk:
\* none of its chunks was delivered to the caller or is queued for delivery.
C23_FailedSentenceSilent ==
    \A i \in 1 .. Len(synth) :
        synth[i].outcome = "failed" =>
            /\ OfSentence(Payloads(AudioEvents), i) = <<>>
            /\ OfSentence(Payloads(Forwarded), i) = <<>>

\* C24: generation and synthesis are pipelined. A sentence is on sentence_q
\* from the step in which the generation stream yields it; the worker can take
\* a queued sentence, and the output loop can take a queued audio event,
\* whether or not generation has ended.
C24_Pipelined ==
    /\ [](/\ (ttsPc = "get" /\ sentence_q # <<>>) => ENABLED WorkerGet
          /\ ssePc = "loop" => ENABLED SseGet)
    /\ [][llm_yielded' # llm_yielded =>
             /\ llm_yielded' = llm_yielded + 1
             /\ SentencePuts' = SentencePuts \o <<SentenceItem(llm_yielded')>>]_vars

\* An audio event of the first sentence has been delivered to the caller
\* while the generation stream is still running and has yielded nothing after
\* that sentence.
C24_Witness ==
    /\ llmPc = "running"
    /\ llm_yielded = 1
    /\ Len(AudioEvents) >= 1
    /\ AudioEvents[1].audio[1] = 1

(***************************************************************************)
(* Claims about a caller that leaves mid-stream (DisconnectSpec).          *)
(***************************************************************************)
\* C25: after the caller has left, the output loop takes nothing more from
\* audio_q, and when the disconnect left sentences of the reply unsynthesized
\* the worker does not go on to synthesize all of them: no run ends with the
\* whole reply generated and every sentence of it synthesized after such a
\* disconnect.
C25_DisconnectStopsStages ==
    /\ [](disconnect.happened =>
            ~(/\ llmPc = "finished"
              /\ ~StreamFailed
              /\ ttsPc = "exit"
              /\ Len(synth) = llm_yielded
              /\ Len(synth) > disconnect.taken))
    /\ [][disconnect.happened => Len(AudioEvents') = Len(AudioEvents)]_vars

(***************************************************************************)
(* Further claims about the wait for missing fragments (WaitSpec).         *)
(***************************************************************************)
\* The buffered indices of the waited session, as a set.
Buffered ==
    IF WaitedSession \in DOMAIN active_sessions
    THEN DictKeySet(active_sessions[WaitedSession]) ELSE {}

\* The indices form a range without a gap.
GapFree(S) == \A a, b \in S : \A i \in a .. b : i \in S

\* C26: the wait returns before the timeout exactly when a poll finds the
\* session's buffered indices absent, empty or forming a gap-free range: a
\* poll with time left that finds them so ends the wait at once, a wait that
\* ended before the timeout found them so, and any other wait ended by the
\* timeout. A fragment stored while the wait sleeps is seen by the next poll.
C26_EarlyReturnOnGapFree ==
    /\ [](wait.pc = "returned" =>
            /\ wait.how \in {"complete", "no_indices", "timeout"}
            /\ wait.how = "timeout" <=> wait.elapsed >= TimeoutMs
            /\ wait.how = "no_indices" <=> (wait.elapsed < TimeoutMs /\ Buffered = {})
            /\ wait.how = "complete" <=>
                   (wait.elapsed < TimeoutMs /\ Buffered # {} /\ GapFree(Buffered)))
    /\ [][(wait.pc = "loop" /\ wait' # wait /\ UNCHANGED sessVars) =>
             /\ wait'.elapsed = wait.elapsed
             /\ wait'.pc = "returned" <=>
                    (wait.elapsed >= TimeoutMs \/ GapFree(Buffered))
             /\ wait'.pc # "returned" => wait'.pc = "sleep"]_vars

\* Indices 0 and 2 were buffered when the wait began; index 1 arrived while
\* the wait slept, and the next poll ended the wait before the timeout.
C26_Witness ==
    /\ wait.pc = "returned"
    /\ wait.how = "complete"
    /\ wait.arrived
    /\ wait.elapsed > 0
    /\ wait.elapsed < TimeoutMs
    /\ Len(calls[WaitedSession]) = 3
    /\ calls[WaitedSession][3].index = 1

(***************************************************************************)
(* Claims about concurrent calls on the chunk store (LockSpec).            *)
(***************************************************************************)
\* The positions in oplog of the calls of one kind that returned.
Returned(op) == {k \in 1 .. Len(oplog) : oplog[k].op = op}

\* The indices a finalize_session call was handed.
IndicesOf(k) == DictKeySet(oplog[k].chunks)

\* The transcript of the fragments with the indices in S.
TranscriptOf(S) ==
    LET sorted == SortedSet(S)
    IN  Strip(JoinSpace([k \in 1 .. Len(sorted) |-> FragmentText(sorted[k])]))

\* No call is in progress.
AllReturned == \A t \in Threads : threads[t].pc = "idle"

\* C27: each fragment is handed to exactly one finalize_session call or is
\* still buffered, never to two calls and never to none; and of two
\* finalize_session calls that both began after every add_chunk_text had
\* returned, one returns the whole transcript and the other returns empty
\* text and None.
C27_ConcurrentFinalize ==
    /\ \A j, k \in Returned("finalize") :
          j # k => IndicesOf(j) \cap IndicesOf(k) = {}
    /\ AllReturned =>
          {oplog[k].index : k \in Returned("add")} =
              UNION {IndicesOf(k) : k \in Returned("finalize")}
                  \cup (IF LockedSession \in DOMAIN active_sessions
                        THEN DictKeySet(active_sessions[LockedSession]) ELSE {})
    /\ \A k \in Returned("finalize") :
          /\ oplog[k].text = TranscriptOf(IndicesOf(k))
          /\ oplog[k].stt = None <=> IndicesOf(k) = {}
    /\ \A j, k \in Returned("finalize") :
          (/\ j < k
           /\ Returned("add") # {}
           /\ \A a \in Returned("add") : a <= oplog[j].began_at /\ a <= oplog[k].began_at
           /\ Returned("add_raised") = {}
           /\ Cardinality(Returned("finalize")) = 2)
          => /\ oplog[j].text = TranscriptOf({oplog[a].index : a \in Returned("add")})
             /\ oplog[j].text # <<>>
             /\ oplog[k].text = <<>>
             /\ oplog[k].stt = None

\* Two fragments were stored, then two finalize_session calls ran at the same
\* time: the second began before the first returned.
C27_Witness ==
    /\ Len(oplog) = 4
    /\ oplog[1].op = "add" /\ oplog[2].op = "add"
    /\ oplog[3].op = "finalize" /\ oplog[4].op = "finalize"
    /\ oplog[3].began_at = 2 /\ oplog[4].began_at = 2
    /\ oplog[3].text = <<"a", " ", "b">>
    /\ oplog[4].text = <<>>

\* C28: when add_chunk_text calls with distinct indices run at the same time
\* on a session that does not exist yet, and all have returned, the session's
\* indices are every index that was added, and no call raised.
C28_ConcurrentAddsKeepAll ==
    (AllReturned /\ Returned("finalize") = {})
        => /\ Returned("add_raised") = {}
           /\ {oplog[k].index : k \in Returned("add")} =
                  {GetSessionIndices(LockedSession)[j] :
                      j \in 1 .. Len(GetSessionIndices(LockedSession))}
           /\ Len(GetSessionIndices(LockedSession)) = Len(oplog)

\* Two add_chunk_text calls were both made before either returned, on the
\* session that did not exist, and both have returned.
C28_Witness ==
    /\ AllReturned
    /\ Len(oplog) = 2
    /\ oplog[1].op = "add" /\ oplog[2].op = "add"
    /\ oplog[1].began_at = 0 /\ oplog[2].began_at = 0

(***************************************************************************)
(* Further claims about the utterance chunk store (SessionSpec).           *)
(***************************************************************************)
\* The latest upload that carried index i.
LastUploadOf(uploads, i) ==
    uploads[CHOOSE k \in 1 .. Len(uploads) :
                /\ uploads[k].index = i
                /\ \A j \in (k + 1) .. Len(uploads) : uploads[j].index # i]

\* The transcript of a sequence of uploads: for each index the text of its
\* latest upload, in ascending index order.
TranscriptOfUploads(uploads) ==
    LET sorted == SortedSet({uploads[k].index : k \in 1 .. Len(uploads)})
    IN  Strip(JoinSpace([k \in 1 .. Len(sorted) |->
                            LastUploadOf(uploads, sorted[k]).text]))

\* C29: within a session an index holds at most one result. The buffered
\* indices are free of duplicates; an add_chunk_text for an index already
\* buffered leaves the buffered indices as they were and replaces the result
\* of that index; finalize_session returns, for each index, the text of its
\* latest upload once and no earlier text of it.
C29_LaterUploadOverwrites ==
    /\ [](\A s \in DOMAIN active_sessions :
            /\ Cardinality(DictKeySet(active_sessions[s])) = Len(active_sessions[s])
            /\ \A i \in DictKeySet(active_sessions[s]) :
                  /\ DictGet(active_sessions[s], i).text = LastUploadOf(calls[s], i).text
                  /\ DictGet(active_sessions[s], i).stt_ms = LastUploadOf(calls[s], i).stt_ms)
    /\ [](\A s \in Sessions :
            (ret[s].called /\ ret[s].uploads # <<>>) =>
                ret[s].text = TranscriptOfUploads(ret[s].uploads))
    /\ [][\A s \in DOMAIN active_sessions :
             (/\ Len(calls'[s]) = Len(calls[s]) + 1
              /\ calls'[s][Len(calls'[s])].index \in DictKeySet(active_sessions[s]))
             => DictKeys(active_sessions'[s]) = DictKeys(active_sessions[s])]_vars

\* Index 0 was uploaded twice with different texts, around an upload of
\* index 1, and the session was finalized.
C29_Witness ==
    \E s \in Sessions :
        /\ ret[s].called
        /\ Len(ret[s].uploads) = 3
        /\ ret[s].uploads[1].index = 0
        /\ ret[s].uploads[2].index = 1
        /\ ret[s].uploads[3].index = 0
        /\ ret[s].uploads[1].text # ret[s].uploads[3].text
        /\ ret[s].text = <<"b", " ", "a">>

(***************************************************************************)
(* Claims about /upload_audio_chunk (UploadSpec).                          *)
(***************************************************************************)
\* The upload carries nothing to keep: no bytes, a recognition that raises,
\* or a recognized text that is empty, blank, shorter than two characters, an
\* ignored phrase, or one that holds a subtitle word.
NothingToKeep(audio) ==
    \/ audio.kind \in {"empty", "stt_raises"}
    \/ Len(Strip(audio.text)) < 2
    \/ Strip(audio.text) \in IgnorePhrases
    \/ Contains(LowerText(Strip(audio.text)), <<"s", "u", "b", "t", "i", "t", "l", "e">>)

\* The step is an /upload_audio_chunk request (not a finalize_session call).
IsUploadStep == finCount' = finCount /\ (calls' # calls \/ upload' # upload)

\* C30: an upload with nothing to keep returns a status (empty, error or
\* ignored) and leaves the store as it was: nothing is stored for its index
\* and the fragments already buffered are neither removed nor altered; so a
\* later finalize_session returns the texts of the fragments that were kept.
C30_FailedFragmentLeavesSession ==
    /\ [][(IsUploadStep /\ NothingToKeep(upload'.audio)) =>
             /\ upload'.status \in {"empty", "error", "ignored"}
             /\ ~upload'.stored
             /\ active_sessions' = active_sessions
             /\ calls' = calls]_vars
    /\ [][(IsUploadStep /\ ~NothingToKeep(upload'.audio)) =>
             /\ upload'.status = "ok"
             /\ Len(calls'[UploadSession]) = Len(calls[UploadSession]) + 1
             /\ calls'[UploadSession][Len(calls'[UploadSession])].text =
                    Strip(upload'.audio.text)]_vars
    /\ [](upload.status \in {"none", "empty", "error", "ignored", "ok"})
    /\ [](ret[UploadSession].called /\ ret[UploadSession].uploads # <<>> =>
            ret[UploadSession].text = TranscriptOfUploads(ret[UploadSession].uploads))

\* Indices 0 and 2 were stored, an upload then failed in recognition, and
\* the session was finalized with the two texts.
C30_Witness ==
    /\ upload.status = "error"
    /\ ret[UploadSession].called
    /\ Len(ret[UploadSession].uploads) = 2
    /\ ret[UploadSession].uploads[1].index = 0
    /\ ret[UploadSession].uploads[2].index = 2
    /\ ret[UploadSession].text = <<"o", "k", " ", "o", "k">>

(***************************************************************************)
(* Claims about metadata parsing (SegmenterSpec).                          *)
(***************************************************************************)
\* C31: in the parsed metadata the value of every field, whatever its key, is
\* an integer if it parses as one, else a decimal if it parses as one, else
\* text: no value kept as text would parse as a number.
C31_EveryValueParsed ==
    segPc = "done" =>
        \A k \in DOMAIN done_event.novoice :
            done_event.novoice[k].kind = "str" =>
                PriceValue(done_event.novoice[k].text).kind = "str"

\* The rest of the sentence holds: keys are lower-cased, a field is split at
\* its first ":" only, keys other than action/price/mood/note are retained,
\* and the value of the price field is parsed as a number where it can be.
C31_KeysAndFirstColon ==
    segPc = "done" =>
        /\ \A k \in DOMAIN done_event.novoice :
              /\ LowerText(k) = k
              /\ ~Contains(k, <<":">>)
              /\ (k = <<"p", "r", "i", "c", "e">> /\ done_event.novoice[k].kind = "str") =>
                     PriceValue(done_event.novoice[k].text).kind = "str"
        /\ Contains(llm_text, <<"a", ":", "b", ":", "c">> \o NovoiceClose) =>
              /\ <<"a">> \in DOMAIN done_event.novoice
              /\ done_event.novoice[<<"a">>] = [kind |-> "str", text |-> <<"b", ":", "c">>]
              /\ <<"m", "o", "o", "d">> \in DOMAIN done_event.novoice

(***************************************************************************)
(* Claims about the open delimiter arriving in pieces (SegmenterSpec).     *)
(***************************************************************************)
\* Where the first open delimiter starts in the generated text (0 if none).
TagStart == IndexOf(llm_text, NovoiceOpen)

\* The characters of the first open delimiter delivered so far.
TagSeen ==
    IF TagStart = 0 \/ pos < TagStart THEN 0
    ELSE IF pos - TagStart + 1 > Len(NovoiceOpen) THEN Len(NovoiceOpen)
    ELSE pos - TagStart + 1

\* The open delimiter has arrived in part only.
TagPending == segPc = "streaming" /\ 0 < TagSeen /\ TagSeen < Len(NovoiceOpen)

\* C32: an open delimiter that arrives cut across deltas is detected once all
\* of it is buffered. While a piece of it is pending the piece is kept at the
\* end of the buffer and no unit holds any of it; as soon as its last
\* character has been delivered the segmenter is in the metadata state; and
\* the step that completes it leaves the locals exactly as the same step
\* does when the pending piece arrives together with the rest in one delta.
C32_SplitDelimiterDetected ==
    /\ [](/\ TagPending =>
                /\ ~seg.in_novoice
                /\ Len(seg.buffer) >= TagSeen
                /\ SubSeq(seg.buffer, Len(seg.buffer) - TagSeen + 1, Len(seg.buffer))
                       = SubSeq(NovoiceOpen, 1, TagSeen)
                /\ \A i \in 1 .. Len(seg.units) : ~Contains(seg.units[i].text, <<"<">>)
          /\ (segPc = "streaming" /\ TagSeen = Len(NovoiceOpen)) => seg.in_novoice
          /\ seg.in_novoice =>
                /\ seg.buffer = <<>>
                /\ seg.novoice_buffer = SubSeq(llm_text, TagStart, pos))
    /\ [][(TagPending /\ seg'.in_novoice) =>
              seg' = SegDelta([seg EXCEPT !.buffer = SubSeq(@, 1, Len(@) - TagSeen)],
                              SubSeq(llm_text, TagStart, pos'))]_vars

\* A sentence was emitted, then a piece of the delimiter arrived behind more
\* text, and the rest of the delimiter is still to come.
C32_Witness ==
    /\ TagPending
    /\ Len(seg.units) = 1
    /\ Len(seg.buffer) > TagSeen

(***************************************************************************)
(* Claims about what a sentence unit may hold (SegmenterSpec).             *)
(***************************************************************************)
\* The step ends the run of the segmenter (final flush and done event).
IsFlushStep == segPc = "streaming" /\ segPc' # "streaming" /\ segPc' # "failed"

\* C33: no emitted sentence unit is empty or whitespace-only, and none has
\* leading or trailing whitespace, whichever path emitted it; the index
\* counter advances by exactly the number of units a step emits, so a final
\* flush of an empty or whitespace-only buffer emits nothing and consumes no
\* index.
C33_NoBlankUnit ==
    /\ [](\A i \in 1 .. Len(seg.units) :
              LET text == seg.units[i].text
              IN  /\ text # <<>>
                  /\ ~IsSpace(text[1])
                  /\ ~IsSpace(text[Len(text)]))
    /\ [][/\ seg'.sentence_index - seg.sentence_index = Len(seg'.units) - Len(seg.units)
          /\ (IsFlushStep /\ \A i \in 1 .. Len(seg.buffer) : IsSpace(seg.buffer[i])) =>
                 (seg'.units = seg.units /\ seg'.sentence_index = seg.sentence_index)
          /\ (IsFlushStep /\ ~seg.in_novoice /\ \E i \in 1 .. Len(seg.buffer) : ~IsSpace(seg.buffer[i])) =>
                 Len(seg'.units) = Len(seg.units) + 1]_vars

\* A run that emitted a unit and whose final flush found only whitespace in
\* the buffer has ended.
C33_Witness ==
    /\ segPc = "done"
    /\ ~seg.in_novoice
    /\ seg.buffer # <<>>
    /\ \A i \in 1 .. Len(seg.buffer) : IsSpace(seg.buffer[i])
    /\ Len(seg.units) = 1

(***************************************************************************)
(* Claims about the counts of the terminal event (PipelineSpec).           *)
(***************************************************************************)
\* The generation stream ended with its done item (it did not raise).
GenerationDone == "type" \in DOMAIN llm_done_info

\* C34: the sentence_count of the pipeline's done event is the number of
\* sentence events the generation run emitted, in the streaming and in the
\* non-streaming mode.
C34_SentenceCountReported ==
    (ssePc = "finished" /\ GenerationDone) =>
        events[Len(events)].sentence_count = llm_yielded

\* In the streaming mode the count is right: the done item carries
\* sentence_count, and it is the number of sentences yielded.
C34_StreamingCount ==
    (ssePc = "finished" /\ "sentence_count" \in DOMAIN llm_done_info) =>
        /\ llm_done_info.sentence_count = llm_yielded
        /\ events[Len(events)].sentence_count = llm_yielded

\* C35: the chunk_count of the terminal done event is the number of audio
\* events delivered to the caller before it in the run (0 when none was),
\* whether the generation ended normally or raised.
C35_ChunkCountReported ==
    ssePc = "finished" =>
        LET done == events[Len(events)]
        IN  /\ done.type = "done"
            /\ done.chunk_count =
                   Cardinality({i \in 1 .. Len(events) - 1 : events[i].type = "audio"})
            /\ done.chunk_count = global_chunk_index

\* A run that delivered the audio of two sentences, one of which failed part
\* way, has ended with its done event.
C35_Witness ==
    /\ ssePc = "finished"
    /\ events[Len(events)].chunk_count = 3
    /\ Len(synth) = 2
    /\ \E i \in 1 .. Len(synth) : synth[i].outcome = "failed"

\* A run without any audio has ended with its done event.
C35_NoChunk ==
    /\ ssePc = "finished"
    /\ events[Len(events)].chunk_count = 0
    /\ Len(events) = 2

(***************************************************************************)
(* Claims about the text of the done event (SegmenterSpec).                *)
(***************************************************************************)
\* C36: in a streaming run that emitted at least one sentence unit, the done
\* event's full_text is the texts of the emitted units, in order, joined by
\* single spaces.
C36_FullTextJoinsUnits ==
    (segPc = "done" /\ seg.units # <<>>) =>
        done_event.full_text = JoinSpace(UnitSeq)

\* What does hold: the full_text is the units' texts in order, apart from
\* whitespace.
C36_SameTextApartFromSpaces ==
    (segPc = "done" /\ seg.units # <<>>) =>
        NonSpace(done_event.full_text) = NonSpace(UnitTexts(seg.units))

(***************************************************************************)
(* Claims about concurrent requests for one character (RequestsSpec).      *)
(***************************************************************************)
\* Request r appends its user message and reads the history in this step.
AppendsAndReads(r) == reqs[r].pc = "ready" /\ reqs'[r].pc = "generating"

\* C37: the history handed to generation is the character's message sequence
\* as it was before this request's user message was appended, and the element
\* dropped from the read is this request's own user message, also when other
\* requests for the same character (and a clear) run at its awaits: a
\* request's history never holds its own user message.
C37_HistoryBeforeOwnMessage ==
    /\ [][\A r \in Requests :
              AppendsAndReads(r) =>
                  LET after == Messages(conversations', heap', reqs[r].npc_id)
                  IN  /\ reqs'[r].history_for_llm =
                             Messages(conversations, heap, reqs[r].npc_id)
                      /\ after = Append(reqs'[r].history_for_llm,
                                        [role |-> "user", content |-> reqs[r].user_text])]_vars
    /\ [](\A r \in Requests :
              \A i \in 1 .. Len(reqs[r].history_for_llm) :
                  reqs[r].history_for_llm[i].content # reqs[r].user_text)

\* Two requests for the same character are awaiting their generation at once,
\* and the later one's history holds the earlier one's user message.
C37_Witness ==
    /\ reqs["r1"].pc = "generating"
    /\ reqs["r2"].pc = "generating"
    /\ reqs["r1"].npc_id = reqs["r2"].npc_id
    /\ reqs["r2"].history_for_llm = <<[role |-> "user", content |-> RequestText("r1")]>>

(***************************************************************************)
(* Claims about a fragment that arrives after its utterance was finalized  *)
(* (SessionSpec).                                                          *)
(***************************************************************************)
\* The step is an add_chunk_text for session s.
IsAddFor(s) == Len(calls'[s]) = Len(calls[s]) + 1

\* The step is a finalize_session for session s.
IsFinalizeOf(s) == finCount'[s] = finCount[s] + 1

\* C38: an add_chunk_text that takes effect after finalize_session of its
\* session id leaves the returned transcript as it is and starts a fresh
\* session under that id which holds the late fragment only; a session never
\* holds a fragment uploaded before the last finalize_session of its id; and
\* a transcript is returned by a finalize_session only, made of the fragments
\* uploaded since the previous one.
C38_LateFragmentStartsFresh ==
    /\ [][\A s \in Sessions :
              (ret[s].called /\ calls[s] = <<>> /\ IsAddFor(s)) =>
                  LET late == calls'[s][1]
                  IN  /\ ret'[s] = ret[s]
                      /\ s \notin DOMAIN active_sessions
                      /\ active_sessions'[s] = <<late>>]_vars
    /\ [](\A s \in Sessions :
              IF s \in DOMAIN active_sessions
              THEN DictKeySet(active_sessions[s]) =
                       {calls[s][k].index : k \in 1 .. Len(calls[s])}
              ELSE calls[s] = <<>>)
    /\ [][\A s \in Sessions :
              /\ ret'[s] # ret[s] => IsFinalizeOf(s)
              /\ IsFinalizeOf(s) =>
                     ret'[s].text = IF calls[s] = <<>> THEN <<>>
                                    ELSE TranscriptOfUploads(calls[s])]_vars

\* An utterance was finalized with text, a late fragment arrived, and a
\* second finalize_session returned the late fragment alone.
C38_Witness ==
    \E s \in Sessions :
        /\ ret[s].called
        /\ ret[s].prev_text # <<>>
        /\ Len(ret[s].uploads) = 1
        /\ ret[s].text = Strip(ret[s].uploads[1].text)
        /\ ret[s].text # ret[s].prev_text

(***************************************************************************)
(* Claims about a metadata region that is never closed (SegmenterSpec).    *)
(***************************************************************************)
\* The generated text opens a metadata region and holds no close delimiter.
RegionCutShort ==
    Contains(llm_text, NovoiceOpen) /\ ~Contains(llm_text, NovoiceClose)

\* C39: when a metadata region was opened and the stream ends before its
\* close delimiter, the done event's metadata is the empty mapping, the text
\* before the open delimiter has been emitted as units, and no unit and no
\* part of full_text comes from the region.
C39_UnclosedRegion ==
    (segPc = "done" /\ RegionCutShort) =>
        /\ seg.in_novoice
        /\ seg.novoice_buffer # <<>>
        /\ done_event.novoice = NoMeta
        /\ NonSpace(UnitTexts(seg.units)) =
               NonSpace(SubSeq(llm_text, 1, TagStart - 1))
        /\ NonSpace(done_event.full_text) =
               NonSpace(SubSeq(llm_text, 1, TagStart - 1))

\* A reply of two sentences and an unclosed region holding a price field has
\* ended with its done event.
C39_Witness ==
    /\ segPc = "done"
    /\ RegionCutShort
    /\ Len(seg.units) = 2
    /\ Contains(seg.novoice_buffer, <<"p", "r", "i", "c", "e", ":", "1", "0">>)

====
